---- MODULE Spec2Model ----
(***************************************************************************)
(* Model of the circadianlight gamma engine (src/src/config.rs,            *)
(* src/src/hour.rs, src/src/channel.rs).                                   *)
(*                                                                         *)
(* Numbers.  The program computes on f64, and so does the model: a number  *)
(* is a record [kind, sign, exp, hi, lo].  A finite one has the value      *)
(* sign * (hi * 2^28 + lo) * 2^exp with a mantissa below 2^53, the two     *)
(* zeros included; the infinities and NaN are kinds of their own.  Every   *)
(* operation rounds to the nearest f64, ties to the even mantissa, as IEEE *)
(* 754 binary64 does, and comparisons with NaN are false.                  *)
(*                                                                         *)
(* Names.  Definitions and their parameters keep the names of the source;  *)
(* a parameter or a local name that is also the name of a variable of the  *)
(* module carries the suffix _arg or _loc, so that an operator on values   *)
(* is never read as a function of the state.                               *)
(***************************************************************************)
EXTENDS Integers, Sequences, FiniteSets, TLC

----------------------------------------------------------------------------
(* Bounds of the model. *)

\* Hours are drawn from the grid k / HourGrid.
HourGrid == 4

\* Channel bounds are drawn from the grid k / ChanGrid, k in 1..ChanGrid.
ChanGrid == 2

\* Seconds from midnight are drawn from the SecEdge + 1 first of the day, of
\* its second minute and the last of the day.
SecEdge == 1

\* Nanoseconds are drawn from the multiples of 1 / 2^NanoBits of a second.
NanoBits == 1

\* How many times of day are converted in one run.
MaxTimes == 2

\* How many rounds of the Serve loop are followed.
MaxRounds == 2

\* How many times one run of the daemon applies the gamma.
MaxApplies == 2

\* How many minutes next to midnight, on each side, the Time operands take.
MinuteEdge == 2

----------------------------------------------------------------------------
(* f64 arithmetic: IEEE 754 binary64, rounding to nearest, ties to even. *)

Abs(n) == IF n < 0 THEN -n ELSE n

Sgn(n) == IF n < 0 THEN -1 ELSE IF n > 0 THEN 1 ELSE 0

\* The powers of two that an i32 holds
PowersOfTwo == <<1, 2, 4, 8, 16, 32, 64, 128, 256, 512, 1024, 2048, 4096, 8192, 16384, 32768, 65536, 131072, 262144, 524288, 1048576, 2097152, 4194304, 8388608, 16777216, 33554432, 67108864, 134217728, 268435456, 536870912, 1073741824>>

\* 2^k, for k in 0..30
Pow2(k) == PowersOfTwo[k + 1]

\* The number of bits of n, for 0 <= n < 2^31
BitLen(n) ==
    CHOOSE k \in 0..31 :
        \A p \in {n} : IF k = 0 THEN p = 0 ELSE Pow2(k - 1) <= p /\ (k = 31 \/ p < Pow2(k))

\* The least and the greatest exponent of the last bit of a finite f64
MinExp == -1074

MaxExp == 971

\* A finite f64: sign * (hi * 2^28 + lo) * 2^exp, the mantissa below 2^53;
\* it has 53 bits unless exp is MinExp (a subnormal number or a zero)
Finite(sign, exp, hi, lo) ==
    [kind |-> "finite", sign |-> sign, exp |-> exp, hi |-> hi, lo |-> lo]

\* f64::INFINITY and f64::NEG_INFINITY
Inf(sign) == [kind |-> "inf", sign |-> sign, exp |-> 0, hi |-> 0, lo |-> 0]

\* f64::NAN
NaN == [kind |-> "nan", sign |-> 1, exp |-> 0, hi |-> 0, lo |-> 0]

IsNaN(a) == a.kind = "nan"

IsZero(a) == a.kind = "finite" /\ a.hi = 0 /\ a.lo = 0

\* The bits of h * 2^28 + l above the k last ones, and whether one of the k
\* last bits is set: <<h', l', sticky>>, for h < 2^30 and l < 2^28
ShrSticky(h, l, k) ==
    CHOOSE r \in
        {IF p[3] = 0 THEN <<p[1], p[2], FALSE>>
         ELSE IF p[3] < 28
         THEN <<p[1] \div Pow2(p[3]),
                (p[2] \div Pow2(p[3])) + (p[1] % Pow2(p[3])) * Pow2(28 - p[3]),
                p[2] % Pow2(p[3]) # 0>>
         ELSE IF p[3] <= 58
         THEN <<0, p[1] \div Pow2(p[3] - 28),
                p[1] % Pow2(p[3] - 28) # 0 \/ p[2] # 0>>
         ELSE <<0, 0, p[1] # 0 \/ p[2] # 0>> : p \in {<<h, l, k>>}} : TRUE

\* (h * 2^28 + l) * 2^k as <<h', l'>>, when it is below 2^53
Shl(h, l, k) ==
    CHOOSE r \in
        {IF p[3] < 28
         THEN <<p[1] * Pow2(p[3]) + p[2] \div Pow2(28 - p[3]),
                (p[2] % Pow2(28 - p[3])) * Pow2(p[3])>>
         ELSE <<p[2] * Pow2(p[3] - 28), 0>> : p \in {<<h, l, k>>}} : TRUE

\* The finite f64 of the mantissa and the exponent, or the infinity when
\* the exponent is above MaxExp
Overflowing(sign, exp, hi, lo) ==
    IF exp > MaxExp THEN Inf(sign) ELSE Finite(sign, exp, hi, lo)

\* The last step of rounding: q = <<hi, lo>> is the mantissa cut, up says
\* whether it is rounded up
PackUp(sign, exp, q, up) ==
    CHOOSE r \in
        {IF ~p[4] THEN Overflowing(p[1], p[2], p[3][1], p[3][2])
         ELSE IF p[3][2] + 1 < Pow2(28)
         THEN Overflowing(p[1], p[2], p[3][1], p[3][2] + 1)
         ELSE IF p[3][1] + 1 < Pow2(25)
         THEN Overflowing(p[1], p[2], p[3][1] + 1, 0)
         ELSE Overflowing(p[1], p[2] + 1, Pow2(24), 0) : p \in {<<sign, exp, q, up>>}} : TRUE

\* Rounding to nearest, ties to even: a = <<h, l, sticky>> is the value
\* cut one bit after the last bit of the mantissa
PackRound(sign, exp, a, sticky) ==
    CHOOSE r \in
        {PackUp(p[1], p[2], <<p[3][1] \div 2, p[3][2] \div 2 + (p[3][1] % 2) * Pow2(27)>>,
                p[3][2] % 2 = 1 /\ (p[3][3] \/ p[4] \/ (p[3][2] \div 2) % 2 = 1)) : p \in {<<sign, exp, a, sticky>>}} : TRUE

\* The value cut by shift bits, or moved up by -shift bits
PackShift(sign, h, l, sticky, e, shift) ==
    CHOOSE r \in
        {IF p[6] <= 0
         THEN PackUp(p[1], p[5] + p[6], Shl(p[2], p[3], -p[6]), FALSE)
         ELSE PackRound(p[1], p[5] + p[6], ShrSticky(p[2], p[3], p[6] - 1), p[4]) : p \in {<<sign, h, l, sticky, e, shift>>}} : TRUE

\* The number of bits the value is cut by to leave 53, or more when that
\* leaves its exponent below MinExp
PackLen(sign, h, l, sticky, e, len) ==
    CHOOSE r \in
        {PackShift(p[1], p[2], p[3], p[4], p[5],
                   IF p[5] + p[6] - 53 < MinExp THEN MinExp - p[5] ELSE p[6] - 53) : p \in {<<sign, h, l, sticky, e, len>>}} : TRUE

\* The f64 nearest to sign * (h * 2^28 + l) * 2^e, where sticky says that
\* the value is a little above the one written; ties go to the even mantissa
Pack(sign, h, l, sticky, e) ==
    CHOOSE r \in
        {IF p[2] = 0 /\ p[3] = 0 THEN Finite(p[1], MinExp, 0, 0)
         ELSE PackLen(p[1], p[2], p[3], p[4], p[5],
                      IF p[2] > 0 THEN 28 + BitLen(p[2]) ELSE BitLen(p[3])) : p \in {<<sign, h, l, sticky, e>>}} : TRUE

\* The f64 of the integer n: n as f64
IntF64(n) ==
    CHOOSE r \in
        {Pack(IF p < 0 THEN -1 ELSE 1, Abs(p) \div Pow2(28), Abs(p) % Pow2(28), FALSE, 0) : p \in {n}} : TRUE

\* -a
FNeg(a) ==
    CHOOSE r \in
        {IF p.kind = "nan" THEN p ELSE [p EXCEPT !.sign = -p.sign] : p \in {a}} : TRUE

\* The mantissa of the finite a # 0 with 53 bits, and the exponent that
\* goes with it: <<hi, lo, exp>>
Mantissa53(a) ==
    CHOOSE r \in
        {IF p[1].hi >= Pow2(24) THEN <<p[1].hi, p[1].lo, p[1].exp>>
         ELSE <<Shl(p[1].hi, p[1].lo, p[2])[1], Shl(p[1].hi, p[1].lo, p[2])[2], p[1].exp - p[2]>> : p \in {<<a, 53 - (IF a.hi > 0 THEN 28 + BitLen(a.hi) ELSE BitLen(a.lo))>>}} : TRUE

\* x < y for x = <<h, l>> and y = <<h, l>>
Lt2(x, y) == x[1] < y[1] \/ (x[1] = y[1] /\ x[2] < y[2])

\* x + y on <<h, l>>
Add2(x, y) ==
    CHOOSE r \in
        {<<p[1][1] + p[2][1] + (p[1][2] + p[2][2]) \div Pow2(28), (p[1][2] + p[2][2]) % Pow2(28)>> : p \in {<<x, y>>}} : TRUE

\* x - y on <<h, l>>, for x >= y
Sub2(x, y) ==
    CHOOSE r \in
        {IF p[1][2] >= p[2][2] THEN <<p[1][1] - p[2][1], p[1][2] - p[2][2]>>
         ELSE <<p[1][1] - p[2][1] - 1, p[1][2] - p[2][2] + Pow2(28)>> : p \in {<<x, y>>}} : TRUE

\* The sum of sa * x and sb * (y and a little more when sticky), times 2^e,
\* for x and y of 56 bits at most
AddSigned(sa, x, sb, y, sticky, e) ==
    CHOOSE r \in
        {IF q[2] = <<0, 0>> THEN Finite(1, MinExp, 0, 0)
         ELSE Pack(q[1], q[2][1], q[2][2], q[3], q[4]) :
            q \in {IF p[1] = p[3] THEN <<p[1], Add2(p[2], p[4]), p[5], p[6]>>
                   ELSE IF p[2] = p[4] THEN <<1, <<0, 0>>, FALSE, p[6]>>
                   ELSE IF Lt2(p[2], p[4]) THEN <<p[3], Sub2(p[4], p[2]), FALSE, p[6]>>
                   ELSE IF p[5] THEN <<p[1], Sub2(Sub2(p[2], p[4]), <<0, 1>>), TRUE, p[6]>>
                   ELSE <<p[1], Sub2(p[2], p[4]), FALSE, p[6]>> : p \in {<<sa, x, sb, y, sticky, e>>}}} : TRUE

\* The mantissa of a with three more bits: <<h, l>>
Extended(a) == <<a.hi * 8 + a.lo \div Pow2(25), (a.lo % Pow2(25)) * 8>>

\* a + b for finite a, b # 0 with a.exp >= b.exp: the mantissa of b is cut
\* to the bits that a has, three more and a sticky one
AddAligned(a, b) ==
    CHOOSE r \in
        {AddSigned(p[1].sign, Extended(p[1]), p[2].sign, <<p[3][1], p[3][2]>>, p[3][3], p[1].exp - 3) : p \in {<<a, b, ShrSticky(Extended(b)[1], Extended(b)[2], a.exp - b.exp)>>}} : TRUE

\* a + b
FAdd(a, b) ==
    CHOOSE r \in
        {IF p[1].kind = "nan" \/ p[2].kind = "nan" THEN NaN
         ELSE IF p[1].kind = "inf"
         THEN (IF p[2].kind = "inf" /\ p[2].sign # p[1].sign THEN NaN ELSE p[1])
         ELSE IF p[2].kind = "inf" THEN p[2]
         ELSE IF IsZero(p[1]) /\ IsZero(p[2])
         THEN Finite(IF p[1].sign = -1 /\ p[2].sign = -1 THEN -1 ELSE 1, MinExp, 0, 0)
         ELSE IF IsZero(p[1]) THEN p[2]
         ELSE IF IsZero(p[2]) THEN p[1]
         ELSE AddAligned(IF p[1].exp >= p[2].exp THEN p[1] ELSE p[2],
                         IF p[1].exp >= p[2].exp THEN p[2] ELSE p[1]) : p \in {<<a, b>>}} : TRUE

\* a - b
FSub(a, b) == FAdd(a, FNeg(b))

\* The four limbs of 14 bits of a mantissa, the last one first
Limbs(m) == <<m[2] % Pow2(14), m[2] \div Pow2(14), m[1] % Pow2(14), m[1] \div Pow2(14)>>

\* The product of two mantissas of 53 bits, as its limbs 0..5 and the rest:
\* the sums of the products of limbs, each with the carry of the one before
MulLimbs(x, y) ==
    LET t0 == x[1] * y[1]
        t1 == x[1] * y[2] + x[2] * y[1] + t0 \div Pow2(14)
        t2 == x[1] * y[3] + x[2] * y[2] + x[3] * y[1] + t1 \div Pow2(14)
        t3 == x[1] * y[4] + x[2] * y[3] + x[3] * y[2] + x[4] * y[1] + t2 \div Pow2(14)
        t4 == x[2] * y[4] + x[3] * y[3] + x[4] * y[2] + t3 \div Pow2(14)
        t5 == x[3] * y[4] + x[4] * y[3] + t4 \div Pow2(14)
        t6 == x[4] * y[4] + t5 \div Pow2(14)
    IN  <<t0 % Pow2(14), t1 % Pow2(14), t2 % Pow2(14), t3 % Pow2(14), t4 % Pow2(14), t5 % Pow2(14), t6>>

\* The product from its limbs: the bits from the 50th on, and whether one of
\* the 50 last is set
MulPack(sign, t, e) ==
    CHOOSE r \in
        {Pack(p[1], p[2][6] \div Pow2(8) + p[2][7] * Pow2(6),
              p[2][4] \div Pow2(8) + p[2][5] * Pow2(6) + (p[2][6] % Pow2(8)) * Pow2(20),
              p[2][1] # 0 \/ p[2][2] # 0 \/ p[2][3] # 0 \/ p[2][4] % Pow2(8) # 0,
              p[3] + 50) : p \in {<<sign, t, e>>}} : TRUE

\* a * b for finite a, b # 0, given as <<hi, lo, exp>> with 53 bits
MulFinite(sign, x, y) ==
    CHOOSE r \in
        {MulPack(p[1], MulLimbs(p[2], p[3]), p[4]) : p \in {<<sign, Limbs(x), Limbs(y), x[3] + y[3]>>}} : TRUE

\* a * b
FMul(a, b) ==
    CHOOSE r \in
        {IF p[1].kind = "nan" \/ p[2].kind = "nan" THEN NaN
         ELSE IF p[1].kind = "inf" \/ p[2].kind = "inf"
         THEN (IF IsZero(p[1]) \/ IsZero(p[2]) THEN NaN ELSE Inf(p[1].sign * p[2].sign))
         ELSE IF IsZero(p[1]) \/ IsZero(p[2]) THEN Finite(p[1].sign * p[2].sign, MinExp, 0, 0)
         ELSE MulFinite(p[1].sign * p[2].sign, Mantissa53(p[1]), Mantissa53(p[2])) : p \in {<<a, b>>}} : TRUE

\* One bit of the long division by y: s = <<r, q, n>> holds the remainder
\* r < y, the quotient q and the number n of bits to come
DivStep(s, y) ==
    CHOOSE r \in
        {IF Lt2(p[1], p[3])
         THEN <<p[1], Add2(p[2], p[2]), p[4] - 1>>
         ELSE <<Sub2(p[1], p[3]), Add2(Add2(p[2], p[2]), <<0, 1>>), p[4] - 1>> : p \in {<<Add2(s[1], s[1]), s[2], y, s[3]>>}} : TRUE

\* The long division by y, bit after bit
RECURSIVE DivLoop(_, _)
DivLoop(s, y) ==
    CHOOSE r \in
        {IF p[1][3] = 0 THEN p[1] ELSE DivLoop(DivStep(p[1], p[2]), p[2]) : p \in {<<s, y>>}} : TRUE

\* The quotient of two mantissas of 53 bits with 55 bits after its first,
\* and whether a remainder is left
DivPack(sign, s, e) ==
    CHOOSE r \in
        {Pack(p[1], p[2][2][1], p[2][2][2], p[2][1] # <<0, 0>>, p[3] - 55) : p \in {<<sign, s, e>>}} : TRUE

\* a / b for finite a, b # 0, given as <<hi, lo, exp>> with 53 bits
DivFinite(sign, x, y) ==
    CHOOSE r \in
        {DivPack(p[1],
                 DivLoop(IF Lt2(p[2], p[3]) THEN <<p[2], <<0, 0>>, 55>>
                         ELSE <<Sub2(p[2], p[3]), <<0, 1>>, 55>>, p[3]),
                 p[4]) : p \in {<<sign, <<x[1], x[2]>>, <<y[1], y[2]>>, x[3] - y[3]>>}} : TRUE

\* a / b
FDiv(a, b) ==
    CHOOSE r \in
        {IF p[1].kind = "nan" \/ p[2].kind = "nan" THEN NaN
         ELSE IF p[1].kind = "inf"
         THEN (IF p[2].kind = "inf" THEN NaN ELSE Inf(p[1].sign * p[2].sign))
         ELSE IF p[2].kind = "inf" THEN Finite(p[1].sign * p[2].sign, MinExp, 0, 0)
         ELSE IF IsZero(p[2])
         THEN (IF IsZero(p[1]) THEN NaN ELSE Inf(p[1].sign * p[2].sign))
         ELSE IF IsZero(p[1]) THEN Finite(p[1].sign * p[2].sign, MinExp, 0, 0)
         ELSE DivFinite(p[1].sign * p[2].sign, Mantissa53(p[1]), Mantissa53(p[2])) : p \in {<<a, b>>}} : TRUE

\* The place of a among the numbers apart from its sign: an infinity is
\* above every finite number
Magnitude(a) == IF a.kind = "inf" THEN <<MaxExp + 1, 0, 0>> ELSE <<a.exp, a.hi, a.lo>>

\* x < y for x = <<exp, hi, lo>> and y likewise
Lt3(x, y) ==
    \/ x[1] < y[1]
    \/ x[1] = y[1] /\ x[2] < y[2]
    \/ x[1] = y[1] /\ x[2] = y[2] /\ x[3] < y[3]

\* -1, 0 or 1 as a is below zero, a zero, or above zero
Signum(a) == IF IsZero(a) THEN 0 ELSE a.sign

\* a < b
FLt(a, b) ==
    \A p \in {<<a, b>>} :
        /\ p[1].kind # "nan"
        /\ p[2].kind # "nan"
        /\ \/ Signum(p[1]) < Signum(p[2])
           \/ Signum(p[1]) = 1 /\ Signum(p[2]) = 1 /\ Lt3(Magnitude(p[1]), Magnitude(p[2]))
           \/ Signum(p[1]) = -1 /\ Signum(p[2]) = -1 /\ Lt3(Magnitude(p[2]), Magnitude(p[1]))

\* a <= b
FLe(a, b) ==
    \A p \in {<<a, b>>} : p[1].kind # "nan" /\ p[2].kind # "nan" /\ ~FLt(p[2], p[1])

\* a >= b
FGe(a, b) == FLe(b, a)

\* a == b
FEq(a, b) == FLe(a, b) /\ FLe(b, a)

\* The literal 0.0
Zero == Finite(1, MinExp, 0, 0)

\* The literal 1.0
One == Finite(1, -52, Pow2(24), 0)

\* The number n/d as the program writes it: n as f64 / d as f64, which is
\* also the f64 of the decimal literal of n/d
Rat(n, d) == FDiv(IntF64(n), IntF64(d))

\* The f64 next above the finite a
NextUp(a) ==
    CHOOSE r \in
        {IF IsZero(p) THEN Finite(1, MinExp, 0, 1)
         ELSE IF p.sign = 1 THEN PackUp(1, p.exp, <<p.hi, p.lo>>, TRUE)
         ELSE IF p.hi = Pow2(24) /\ p.lo = 0 /\ p.exp > MinExp
         THEN Finite(-1, p.exp - 1, Pow2(25) - 1, Pow2(28) - 1)
         ELSE Finite(-1, p.exp, Sub2(<<p.hi, p.lo>>, <<0, 1>>)[1], Sub2(<<p.hi, p.lo>>, <<0, 1>>)[2]) : p \in {a}} : TRUE

\* The f64 next below the finite a
NextDown(a) == FNeg(NextUp(FNeg(a)))

----------------------------------------------------------------------------
(* config.rs *)

\* struct HourConfig { day_start, dusk_start, night_start }
HourConfig(day_start, dusk_start, night_start) ==
    [day_start |-> day_start, dusk_start |-> dusk_start,
     night_start |-> night_start]

\* struct InvalidDayPhases { day_start, dusk_start, night_start }
InvalidDayPhases(day_start, dusk_start, night_start) ==
    [day_start |-> day_start, dusk_start |-> dusk_start,
     night_start |-> night_start]

Ok(v) == [tag |-> "Ok", value |-> v]

Err(e) == [tag |-> "Err", error |-> e]

\* No call has returned yet.
None == [tag |-> "None"]

\* impl Default for HourConfig
HourConfig_default == HourConfig(Rat(5, 24), Rat(17, 24), Rat(21, 24))

\* HourConfig::new with the rotation night <= day <= dusk forgotten
HourConfig_new_without_rotation_b(day_start, dusk_start, night_start) ==
    IF \/ FLe(day_start, dusk_start) /\ FLe(dusk_start, night_start)
       \/ FLe(dusk_start, night_start) /\ FLe(night_start, day_start)
    THEN Ok(HourConfig(day_start, dusk_start, night_start))
    ELSE Err(InvalidDayPhases(day_start, dusk_start, night_start))

\* HourConfig::new without any validation
HourConfig_new_unchecked(day_start, dusk_start, night_start) ==
    Ok(HourConfig(day_start, dusk_start, night_start))

\* HourConfig::new with || for && in the rotation dusk <= night <= day
HourConfig_new_or_in_rotation_c(day_start, dusk_start, night_start) ==
    IF \/ FLe(day_start, dusk_start) /\ FLe(dusk_start, night_start)
       \/ FLe(night_start, day_start) /\ FLe(day_start, dusk_start)
       \/ FLe(dusk_start, night_start) \/ FLe(night_start, day_start)
    THEN Ok(HourConfig(day_start, dusk_start, night_start))
    ELSE Err(InvalidDayPhases(day_start, dusk_start, night_start))

\* HourConfig::new
HourConfig_new(day_start, dusk_start, night_start) ==
    IF \/ FLe(day_start, dusk_start) /\ FLe(dusk_start, night_start)
       \/ FLe(night_start, day_start) /\ FLe(day_start, dusk_start)
       \/ FLe(dusk_start, night_start) /\ FLe(night_start, day_start)
    THEN Ok(HourConfig(day_start, dusk_start, night_start))
    ELSE Err(InvalidDayPhases(day_start, dusk_start, night_start))

\* struct ChannelConfig { min, max }
ChannelConfig(min, max) == [min |-> min, max |-> max]

\* struct InvalidChannelBounds { min, max }
InvalidChannelBounds(min, max) == [min |-> min, max |-> max]

\* ChannelConfig::new with min < max for min <= max
ChannelConfig_new_strict(min, max) ==
    IF FLt(min, max)
    THEN Ok(ChannelConfig(min, max))
    ELSE Err(InvalidChannelBounds(min, max))

\* ChannelConfig::new
ChannelConfig_new(min, max) ==
    IF FLe(min, max)
    THEN Ok(ChannelConfig(min, max))
    ELSE Err(InvalidChannelBounds(min, max))

\* struct Config { hours, channels }
Config(hours_arg, channels_arg) == [hours |-> hours_arg, channels |-> channels_arg]

\* Config::default with the channel bounds of lib.rs (green from 0.8, blue
\* from 0.6)
Config_default_lib ==
    Config(HourConfig_default,
           <<ChannelConfig(Rat(1, 1), Rat(1, 1)),
             ChannelConfig(Rat(8, 10), Rat(1, 1)),
             ChannelConfig(Rat(6, 10), Rat(1, 1))>>)

\* impl Default for Config
Config_default ==
    Config(HourConfig_default,
           <<ChannelConfig(Rat(1, 1), Rat(1, 1)),
             ChannelConfig(Rat(65, 100), Rat(1, 1)),
             ChannelConfig(Rat(45, 100), Rat(1, 1))>>)

----------------------------------------------------------------------------
(* hour.rs *)

\* enum DayPhase { Day, Dusk(f64), Night }
Day == [tag |-> "Day"]

Dusk(scale) == [tag |-> "Dusk", scale |-> scale]

Night == [tag |-> "Night"]

\* panic!("Incorrect hour configuration")
Panic == [tag |-> "Panic"]

\* The branch for day_start <= dusk_start <= night_start, with <= for < at
\* the end of the dusk only
from_current_hour_a_dusk_closed(hour_config, current_hour_arg) ==
    LET day_start == hour_config.day_start
        dusk_start == hour_config.dusk_start
        night_start == hour_config.night_start
    IN  IF FGe(current_hour_arg, day_start) /\ FLt(current_hour_arg, dusk_start)
        THEN Day
        ELSE IF FGe(current_hour_arg, dusk_start)
                /\ FLe(current_hour_arg, night_start)
        THEN Dusk(FDiv(FSub(current_hour_arg, dusk_start),
                       FSub(night_start, dusk_start)))
        ELSE Night

\* The branch of from_current_hour for day_start <= dusk_start <=
\* night_start, with <= for < at the upper edges (as in lib.rs)
from_current_hour_a_closed(hour_config, current_hour_arg) ==
    LET day_start == hour_config.day_start
        dusk_start == hour_config.dusk_start
        night_start == hour_config.night_start
    IN  IF FGe(current_hour_arg, day_start) /\ FLe(current_hour_arg, dusk_start)
        THEN Day
        ELSE IF FGe(current_hour_arg, dusk_start)
                /\ FLe(current_hour_arg, night_start)
        THEN Dusk(FDiv(FSub(current_hour_arg, dusk_start),
                       FSub(night_start, dusk_start)))
        ELSE Night

\* DayPhase::from_current_hour, the branch taken when
\* day_start <= dusk_start <= night_start
from_current_hour_a(hour_config, current_hour_arg) ==
    LET day_start == hour_config.day_start
        dusk_start == hour_config.dusk_start
        night_start == hour_config.night_start
    IN  IF FGe(current_hour_arg, day_start) /\ FLt(current_hour_arg, dusk_start)
        THEN Day
        ELSE IF FGe(current_hour_arg, dusk_start)
                /\ FLt(current_hour_arg, night_start)
        THEN Dusk(FDiv(FSub(current_hour_arg, dusk_start),
                       FSub(night_start, dusk_start)))
        ELSE Night

\* The branch for night_start <= day_start <= dusk_start, with the 1.0 added
\* to the time before midnight instead of the time after it
from_current_hour_b_swapped(hour_config, current_hour_arg) ==
    LET day_start == hour_config.day_start
        dusk_start == hour_config.dusk_start
        night_start == hour_config.night_start
    IN  IF FGe(current_hour_arg, day_start) /\ FLt(current_hour_arg, dusk_start)
        THEN Day
        ELSE IF FGe(current_hour_arg, dusk_start)
        THEN Dusk(FDiv(FSub(FAdd(One, current_hour_arg), dusk_start),
                       FSub(FAdd(One, night_start), dusk_start)))
        ELSE IF FLt(current_hour_arg, night_start)
        THEN Dusk(FDiv(FSub(current_hour_arg, dusk_start),
                       FSub(FAdd(One, night_start), dusk_start)))
        ELSE Night

\* The branch for night_start <= day_start <= dusk_start, without the 1.0
\* added to the time after midnight
from_current_hour_b_no_wrap(hour_config, current_hour_arg) ==
    LET day_start == hour_config.day_start
        dusk_start == hour_config.dusk_start
        night_start == hour_config.night_start
    IN  IF FGe(current_hour_arg, day_start) /\ FLt(current_hour_arg, dusk_start)
        THEN Day
        ELSE IF FGe(current_hour_arg, dusk_start)
        THEN Dusk(FDiv(FSub(current_hour_arg, dusk_start),
                       FSub(FAdd(One, night_start), dusk_start)))
        ELSE IF FLt(current_hour_arg, night_start)
        THEN Dusk(FDiv(FSub(current_hour_arg, dusk_start),
                       FSub(FAdd(One, night_start), dusk_start)))
        ELSE Night

\* The branch for night_start <= day_start <= dusk_start, with
\* current_hour <= night_start for current_hour < night_start (as in lib.rs)
from_current_hour_b_closed(hour_config, current_hour_arg) ==
    LET day_start == hour_config.day_start
        dusk_start == hour_config.dusk_start
        night_start == hour_config.night_start
    IN  IF FGe(current_hour_arg, day_start) /\ FLt(current_hour_arg, dusk_start)
        THEN Day
        ELSE IF FGe(current_hour_arg, dusk_start)
        THEN Dusk(FDiv(FSub(current_hour_arg, dusk_start),
                       FSub(FAdd(One, night_start), dusk_start)))
        ELSE IF FLe(current_hour_arg, night_start)
        THEN Dusk(FDiv(FSub(FAdd(One, current_hour_arg), dusk_start),
                       FSub(FAdd(One, night_start), dusk_start)))
        ELSE Night

\* DayPhase::from_current_hour, the branch taken when
\* night_start <= day_start <= dusk_start
from_current_hour_b(hour_config, current_hour_arg) ==
    LET day_start == hour_config.day_start
        dusk_start == hour_config.dusk_start
        night_start == hour_config.night_start
    IN  IF FGe(current_hour_arg, day_start) /\ FLt(current_hour_arg, dusk_start)
        THEN Day
        ELSE IF FGe(current_hour_arg, dusk_start)
        THEN Dusk(FDiv(FSub(current_hour_arg, dusk_start),
                       FSub(FAdd(One, night_start), dusk_start)))
        ELSE IF FLt(current_hour_arg, night_start)
        THEN Dusk(FDiv(FSub(FAdd(One, current_hour_arg), dusk_start),
                       FSub(FAdd(One, night_start), dusk_start)))
        ELSE Night

\* The branch for dusk_start <= night_start <= day_start, with <= for < at
\* the end of the day (as in lib.rs)
from_current_hour_c_closed(hour_config, current_hour_arg) ==
    LET day_start == hour_config.day_start
        dusk_start == hour_config.dusk_start
        night_start == hour_config.night_start
    IN  IF FGe(current_hour_arg, day_start) \/ FLe(current_hour_arg, dusk_start)
        THEN Day
        ELSE IF FGe(current_hour_arg, dusk_start)
                /\ FLt(current_hour_arg, night_start)
        THEN Dusk(FDiv(FSub(current_hour_arg, dusk_start),
                       FSub(night_start, dusk_start)))
        ELSE Night

\* The branch for dusk_start <= night_start <= day_start, with && for || in
\* the test of the day
from_current_hour_c_and(hour_config, current_hour_arg) ==
    LET day_start == hour_config.day_start
        dusk_start == hour_config.dusk_start
        night_start == hour_config.night_start
    IN  IF FGe(current_hour_arg, day_start) /\ FLt(current_hour_arg, dusk_start)
        THEN Day
        ELSE IF FGe(current_hour_arg, dusk_start)
                /\ FLt(current_hour_arg, night_start)
        THEN Dusk(FDiv(FSub(current_hour_arg, dusk_start),
                       FSub(night_start, dusk_start)))
        ELSE Night

\* DayPhase::from_current_hour, the branch taken when
\* dusk_start <= night_start <= day_start
from_current_hour_c(hour_config, current_hour_arg) ==
    LET day_start == hour_config.day_start
        dusk_start == hour_config.dusk_start
        night_start == hour_config.night_start
    IN  IF FGe(current_hour_arg, day_start) \/ FLt(current_hour_arg, dusk_start)
        THEN Day
        ELSE IF FGe(current_hour_arg, dusk_start)
                /\ FLt(current_hour_arg, night_start)
        THEN Dusk(FDiv(FSub(current_hour_arg, dusk_start),
                       FSub(night_start, dusk_start)))
        ELSE Night

\* DayPhase::from_current_hour
from_current_hour(hour_config, current_hour_arg) ==
    LET day_start == hour_config.day_start
        dusk_start == hour_config.dusk_start
        night_start == hour_config.night_start
    IN  IF FLe(day_start, dusk_start) /\ FLe(dusk_start, night_start)
        THEN from_current_hour_a(hour_config, current_hour_arg)
        ELSE IF FLe(night_start, day_start) /\ FLe(day_start, dusk_start)
        THEN from_current_hour_b(hour_config, current_hour_arg)
        ELSE IF FLe(dusk_start, night_start) /\ FLe(night_start, day_start)
        THEN from_current_hour_c(hour_config, current_hour_arg)
        ELSE Panic

\* A chrono::Timelike value, by the two accessors timelike_to_hours reads.
Timelike(num_seconds_from_midnight, nanosecond) ==
    [num_seconds_from_midnight |-> num_seconds_from_midnight,
     nanosecond |-> nanosecond]

\* timelike_to_hours(timelike)
timelike_to_hours(timelike) ==
    LET seconds == IntF64(timelike.num_seconds_from_midnight)
        nanoseconds_frac ==
            FDiv(IntF64(timelike.nanosecond), IntF64(1000000000))
        nanoseconds == FAdd(seconds, nanoseconds_frac)
    IN  FDiv(nanoseconds, FMul(FMul(IntF64(60), IntF64(60)), IntF64(24)))

----------------------------------------------------------------------------
(* channel.rs *)

\* linear_channel_function with scale for 1.0 - scale
linear_channel_function_scale(channel_config, hour_config, current_hour_arg) ==
    LET min == channel_config.min
        max == channel_config.max
        phase_loc == from_current_hour(hour_config, current_hour_arg)
    IN  CASE phase_loc.tag = "Day" -> max
          [] phase_loc.tag = "Night" -> min
          [] phase_loc.tag = "Dusk" ->
                FAdd(min, FMul(FSub(max, min), phase_loc.scale))
          [] phase_loc.tag = "Panic" -> Panic

\* linear_channel_function with max for max - min
linear_channel_function_span(channel_config, hour_config, current_hour_arg) ==
    LET min == channel_config.min
        max == channel_config.max
        phase_loc == from_current_hour(hour_config, current_hour_arg)
    IN  CASE phase_loc.tag = "Day" -> max
          [] phase_loc.tag = "Night" -> min
          [] phase_loc.tag = "Dusk" ->
                FAdd(min, FMul(max, FSub(One, phase_loc.scale)))
          [] phase_loc.tag = "Panic" -> Panic

\* linear_channel_function(channel_config, hour_config)(current_hour):
\* an f64, or the classifier's panic
linear_channel_function(channel_config, hour_config, current_hour_arg) ==
    LET min == channel_config.min
        max == channel_config.max
        phase_loc == from_current_hour(hour_config, current_hour_arg)
    IN  CASE phase_loc.tag = "Day" -> max
          [] phase_loc.tag = "Night" -> min
          [] phase_loc.tag = "Dusk" ->
                FAdd(min, FMul(FSub(max, min), FSub(One, phase_loc.scale)))
          [] phase_loc.tag = "Panic" -> Panic

\* map_channel_vector with the green and blue outputs exchanged
map_channel_vector_swapped(input, mapper) ==
    LET r == mapper[input[1]]
        g == mapper[input[2]]
        b == mapper[input[3]]
    IN  IF r = Panic \/ g = Panic \/ b = Panic THEN Panic ELSE <<r, b, g>>

\* map_channel_vector(input, mapper), the mapper given by its graph: it is
\* applied to input[0], input[1], input[2] in this order, and a panic of one
\* application is the panic of the whole call
map_channel_vector(input, mapper) ==
    LET r == mapper[input[1]]
        g == mapper[input[2]]
        b == mapper[input[3]]
    IN  IF r = Panic \/ g = Panic \/ b = Panic THEN Panic ELSE <<r, g, b>>

\* gamma_function(config)(current_hour)
gamma_function(config, current_hour_arg) ==
    map_channel_vector(
        config.channels,
        [channel_config \in {config.channels[i] : i \in 1..3} |->
            linear_channel_function(channel_config, config.hours,
                                    current_hour_arg)])

----------------------------------------------------------------------------
(* lib.rs: the library before it was split into modules.  Its HourConfig   *)
(* and ChannelConfig have private fields and are built from their default  *)
(* by with_* calls, each of which asserts the invariant of the type.       *)

\* impl Default for HourConfig (lib.rs)
lib_HourConfig_default == HourConfig(Rat(5, 24), Rat(17, 24), Rat(21, 24))

\* HourConfig::with_day_start(self, day_start): the new instance, or the
\* panic of the assertion
HourConfig_with_day_start(self, day_start) ==
    IF \/ FLe(day_start, self.dusk_start)
          /\ FLe(self.dusk_start, self.night_start)
       \/ FLe(self.night_start, day_start) /\ FLe(day_start, self.dusk_start)
       \/ FLe(self.dusk_start, self.night_start)
          /\ FLe(self.night_start, day_start)
    THEN [self EXCEPT !.day_start = day_start]
    ELSE Panic

\* HourConfig::with_dusk_start(self, dusk_start)
HourConfig_with_dusk_start(self, dusk_start) ==
    IF \/ FLe(self.day_start, dusk_start) /\ FLe(dusk_start, self.night_start)
       \/ FLe(self.night_start, self.day_start)
          /\ FLe(self.day_start, dusk_start)
       \/ FLe(dusk_start, self.night_start)
          /\ FLe(self.night_start, self.day_start)
    THEN [self EXCEPT !.dusk_start = dusk_start]
    ELSE Panic

\* HourConfig::with_night_start asserting the order of the fields of self,
\* the night start to be replaced included
HourConfig_with_night_start_stale(self, night_start) ==
    IF \/ FLe(self.day_start, self.dusk_start)
          /\ FLe(self.dusk_start, self.night_start)
       \/ FLe(self.night_start, self.day_start)
          /\ FLe(self.day_start, self.dusk_start)
       \/ FLe(self.dusk_start, self.night_start)
          /\ FLe(self.night_start, self.day_start)
    THEN [self EXCEPT !.night_start = night_start]
    ELSE Panic

\* HourConfig::with_night_start(self, night_start)
HourConfig_with_night_start(self, night_start) ==
    IF \/ FLe(self.day_start, self.dusk_start)
          /\ FLe(self.dusk_start, night_start)
       \/ FLe(night_start, self.day_start)
          /\ FLe(self.day_start, self.dusk_start)
       \/ FLe(self.dusk_start, night_start)
          /\ FLe(night_start, self.day_start)
    THEN [self EXCEPT !.night_start = night_start]
    ELSE Panic

\* impl Default for ChannelConfig (lib.rs)
ChannelConfig_default == ChannelConfig(Zero, One)

\* ChannelConfig::with_min without its assertion
ChannelConfig_with_min_unchecked(self, min) == [self EXCEPT !.min = min]

\* ChannelConfig::with_min(self, min)
ChannelConfig_with_min(self, min) ==
    IF FLe(min, self.max) THEN [self EXCEPT !.min = min] ELSE Panic

\* ChannelConfig::with_max(self, max)
ChannelConfig_with_max(self, max) ==
    IF FGe(max, self.min) THEN [self EXCEPT !.max = max] ELSE Panic

\* DayPhase::from_current_hour of lib.rs: the upper edges of the intervals
\* are closed
lib_from_current_hour(hour_config, current_hour_arg) ==
    LET day_start == hour_config.day_start
        dusk_start == hour_config.dusk_start
        night_start == hour_config.night_start
    IN  IF FLe(day_start, dusk_start) /\ FLe(dusk_start, night_start)
        THEN IF FGe(current_hour_arg, day_start) /\ FLe(current_hour_arg, dusk_start)
             THEN Day
             ELSE IF FGe(current_hour_arg, dusk_start)
                     /\ FLe(current_hour_arg, night_start)
             THEN Dusk(FDiv(FSub(current_hour_arg, dusk_start),
                            FSub(night_start, dusk_start)))
             ELSE Night
        ELSE IF FLe(night_start, day_start) /\ FLe(day_start, dusk_start)
        THEN IF FGe(current_hour_arg, day_start) /\ FLe(current_hour_arg, dusk_start)
             THEN Day
             ELSE IF FGe(current_hour_arg, dusk_start)
             THEN Dusk(FDiv(FSub(current_hour_arg, dusk_start),
                            FSub(FAdd(One, night_start), dusk_start)))
             ELSE IF FLe(current_hour_arg, night_start)
             THEN Dusk(FDiv(FSub(FAdd(One, current_hour_arg), dusk_start),
                            FSub(FAdd(One, night_start), dusk_start)))
             ELSE Night
        ELSE IF FLe(dusk_start, night_start) /\ FLe(night_start, day_start)
        THEN IF FGe(current_hour_arg, day_start) \/ FLe(current_hour_arg, dusk_start)
             THEN Day
             ELSE IF FGe(current_hour_arg, dusk_start)
                     /\ FLe(current_hour_arg, night_start)
             THEN Dusk(FDiv(FSub(current_hour_arg, dusk_start),
                            FSub(night_start, dusk_start)))
             ELSE Night
        ELSE Panic

\* linear_channel_function of lib.rs with scale for 1.0 - scale
lib_linear_channel_function_scale(channel_config, hour_config, current_hour_arg) ==
    CHOOSE value \in
        {CASE phase_loc.tag = "Day" -> channel_config.max
           [] phase_loc.tag = "Night" -> channel_config.min
           [] phase_loc.tag = "Dusk" ->
                FAdd(channel_config.min,
                     FMul(FSub(channel_config.max, channel_config.min),
                          phase_loc.scale))
           [] phase_loc.tag = "Panic" -> Panic :
            phase_loc \in {lib_from_current_hour(hour_config, current_hour_arg)}} :
        TRUE

\* linear_channel_function of lib.rs: an f64, or the classifier's panic.
\* The match is on the value of DayPhase::from_current_hour(..), computed
\* once.
lib_linear_channel_function(channel_config, hour_config, current_hour_arg) ==
    CHOOSE value \in
        {CASE phase_loc.tag = "Day" -> channel_config.max
           [] phase_loc.tag = "Night" -> channel_config.min
           [] phase_loc.tag = "Dusk" ->
                FAdd(channel_config.min,
                     FMul(FSub(channel_config.max, channel_config.min),
                          FSub(One, phase_loc.scale)))
           [] phase_loc.tag = "Panic" -> Panic :
            phase_loc \in {lib_from_current_hour(hour_config, current_hour_arg)}} :
        TRUE

\* impl Default for Config (lib.rs)
lib_Config_default ==
    Config(lib_HourConfig_default,
           <<ChannelConfig(Rat(1, 1), Rat(1, 1)),
             ChannelConfig(Rat(8, 10), Rat(1, 1)),
             ChannelConfig(Rat(6, 10), Rat(1, 1))>>)

\* gamma_function(config)(current_hour) of lib.rs, with its
\* map_channel_vector
lib_gamma_function(config, current_hour_arg) ==
    map_channel_vector(
        config.channels,
        [channel_config \in {config.channels[i] : i \in 1..3} |->
            lib_linear_channel_function(channel_config, config.hours,
                                        current_hour_arg)])

----------------------------------------------------------------------------
(* format!: the text of an f64 with three decimals, and the gamma strings  *)
(* of bin/circadianlight.rs, bin/main.rs and environment/linux.rs.         *)

Digit(n) == <<"0", "1", "2", "3", "4", "5", "6", "7", "8", "9">>[n + 1]

\* A natural number of any size is the sequence of its limbs of 14 bits,
\* the last one first.  BigTimes(n, m, carry) is n * m + carry for small m
RECURSIVE BigTimes(_, _, _)
BigTimes(n, m, carry) ==
    CHOOSE r \in
        {IF p[1] = <<>>
         THEN (IF p[3] = 0 THEN <<>> ELSE <<p[3] % Pow2(14)>> \o BigTimes(<<>>, p[2], p[3] \div Pow2(14)))
         ELSE <<(p[1][1] * p[2] + p[3]) % Pow2(14)>>
              \o BigTimes(Tail(p[1]), p[2], (p[1][1] * p[2] + p[3]) \div Pow2(14)) : p \in {<<n, m, carry>>}} : TRUE

\* The quotient and the remainder of n by the small d: <<n \div d, n % d>>
RECURSIVE BigDivMod(_, _)
BigDivMod(n, d) ==
    CHOOSE r \in
        {IF p[1] = <<>> THEN <<<<>>, 0>>
         ELSE CHOOSE s \in
                {<<<<(q[2] * Pow2(14) + p[1][1]) \div p[2]>> \o q[1],
                   (q[2] * Pow2(14) + p[1][1]) % p[2]>> : q \in {BigDivMod(Tail(p[1]), p[2])}} : TRUE : p \in {<<n, d>>}} : TRUE

BigIsZero(n) == \A p \in {n} : \A i \in 1..Len(p) : p[i] = 0

\* n without its k last bits, and whether one of them is set: <<n', sticky>>
BigShr(n, k) ==
    CHOOSE r \in
        {IF p[2] \div 14 >= Len(p[1]) THEN <<<<>>, ~BigIsZero(p[1])>>
         ELSE CHOOSE s \in
                {<<q[1], q[2] # 0 \/ ~BigIsZero(SubSeq(p[1], 1, p[2] \div 14))>> :
                    q \in {BigDivMod(SubSeq(p[1], p[2] \div 14 + 1, Len(p[1])), Pow2(p[2] % 14))}} : TRUE : p \in {<<n, k>>}} : TRUE

\* n * 2^k: whole limbs of zeros, then every limb moved up by k % 14 bits
\* with the bits that leave the limb before it
BigShl(n, k) ==
    CHOOSE r \in
        {[i \in 1..(p[2] + Len(p[1]) + 1) |->
            IF i <= p[2] THEN 0
            ELSE (IF i - p[2] <= Len(p[1]) THEN (p[1][i - p[2]] * Pow2(p[3])) % Pow2(14) ELSE 0)
                 + (IF i - p[2] >= 2 THEN p[1][i - p[2] - 1] \div Pow2(14 - p[3]) ELSE 0)] : p \in {<<n, k \div 14, k % 14>>}} : TRUE

\* The decimal digits of n, none for zero
RECURSIVE BigDigits(_)
BigDigits(n) ==
    CHOOSE r \in
        {IF BigIsZero(p) THEN ""
         ELSE CHOOSE s \in
                {BigDigits(q[1]) \o Digit(q[2]) : q \in {BigDivMod(p, 10)}} : TRUE : p \in {n}} : TRUE

\* The text of the thousandths n: the integer part, a point, three digits
ThousandthsText(n) ==
    CHOOSE r \in
        {(IF BigIsZero(q[1]) THEN "0" ELSE BigDigits(q[1])) \o "."
         \o Digit(q[2] \div 100) \o Digit((q[2] \div 10) % 10) \o Digit(q[2] % 10) : q \in {BigDivMod(n, 1000)}} : TRUE

\* n cut one bit before its end, rounded to nearest, ties to even:
\* c = <<n with one bit more, sticky>>
BigRound(c) ==
    CHOOSE r \in
        {IF q[2] = 1 /\ (q[3] \/ (q[1] # <<>> /\ q[1][1] % 2 = 1))
         THEN BigTimes(q[1], 1, 1) ELSE q[1] : q \in {<<BigDivMod(c[1], 2)[1], BigDivMod(c[1], 2)[2], c[2]>>}} : TRUE

\* The thousandths nearest to the finite x >= 0, ties to even:
\* mantissa * 1000 * 2^exp, rounded when exp < 0
Thousandths(x) ==
    CHOOSE r \in
        {IF p[2] >= 0 THEN BigShl(p[1], p[2]) ELSE BigRound(BigShr(p[1], -p[2] - 1)) : p \in {<<BigTimes(Limbs(<<x.hi, x.lo>>), 1000, 0), x.exp>>}} : TRUE

\* format!("{:.3}", x)
format_3(x) ==
    CHOOSE r \in
        {IF p.kind = "nan" THEN "NaN"
         ELSE (IF p.sign = -1 THEN "-" ELSE "")
              \o (IF p.kind = "inf" THEN "inf" ELSE ThousandthsText(Thousandths(p))) : p \in {x}} : TRUE

\* format!("{:.3}:{:.3}:{:.3}", gamma[0], gamma[1], gamma[2]), the line of
\* format_gamma in bin/circadianlight.rs and of main in bin/main.rs
bin_format(gamma_arg) ==
    format_3(gamma_arg[1]) \o ":" \o format_3(gamma_arg[2]) \o ":"
    \o format_3(gamma_arg[3])

\* The gamma of format_gamma(time) of bin/circadianlight.rs, where now is
\* what Local::now() reads: let hours = ..; let gamma = ..
bin_gamma(time, now) ==
    CHOOSE gamma_loc \in
        {lib_gamma_function(lib_Config_default, hours_loc) :
            hours_loc \in {IF time.tag = "Some"
                       THEN timelike_to_hours(time.value)
                       ELSE timelike_to_hours(now)}} : TRUE

\* format_gamma(time) of bin/circadianlight.rs
bin_format_gamma(time, now) ==
    CHOOSE formatted \in
        {bin_format(gamma_loc) : gamma_loc \in {bin_gamma(time, now)}} : TRUE

\* XorgEnv::format_gamma: format!("{:.3}:{:.3}{:.3}", ..)
XorgEnv_format_gamma(gamma_arg) ==
    format_3(gamma_arg[1]) \o ":" \o format_3(gamma_arg[2]) \o format_3(gamma_arg[3])

\* The arguments apply_gamma and apply_command give to xrandr: for every
\* monitor, --output monitor --gamma formatted_gamma
RECURSIVE xrandr_args(_, _)
xrandr_args(formatted_gamma, monitors) ==
    IF monitors = <<>> THEN <<>>
    ELSE <<"--output", Head(monitors), "--gamma", formatted_gamma>>
         \o xrandr_args(formatted_gamma, Tail(monitors))

----------------------------------------------------------------------------
(* time.rs: a time of day in whole minutes, held in a u16. *)

HOUR_COUNT == 24

MINUTE_COUNT == 60

TOTAL_MINUTE_COUNT == HOUR_COUNT * MINUTE_COUNT

\* 2^16, the number of values of a u16
U16 == 65536

\* struct Time { minutes }
Time(minutes) == [minutes |-> minutes]

\* x + y on u16: with overflow checks (a debug build) an overflow panics,
\* without them (a release build) it wraps; Ok holds the u16 computed
u16_add(x, y, overflow_checks) ==
    IF x + y >= U16 /\ overflow_checks THEN Panic ELSE Ok((x + y) % U16)

\* x - y on u16, likewise
u16_sub(x, y, overflow_checks) ==
    IF x - y < 0 /\ overflow_checks THEN Panic ELSE Ok((x - y) % U16)

\* Time::new_cycling
Time_new_cycling(total_minutes) == Time(total_minutes % TOTAL_MINUTE_COUNT)

\* Time::total_minutes
Time_total_minutes(self) == self.minutes

\* impl Add for Time
Time_add(self, rhs, overflow_checks) ==
    LET sum == u16_add(Time_total_minutes(self), Time_total_minutes(rhs),
                       overflow_checks)
    IN  IF sum = Panic THEN Panic ELSE Time_new_cycling(sum.value)

\* impl Sub for Time
Time_sub(self, rhs, overflow_checks) ==
    LET difference == u16_sub(Time_total_minutes(self),
                              Time_total_minutes(rhs), overflow_checks)
    IN  IF difference = Panic THEN Panic ELSE Time_new_cycling(difference.value)

----------------------------------------------------------------------------
(* environment.rs, environment/linux.rs and cli.rs: the command line       *)
(* program, run with the graphical environment of the platform or without  *)
(* one.                                                                    *)

\* Option::Some(v)
Some(v) == [tag |-> "Some", value |-> v]

\* io::Error::new(kind, error)
IoError(kind, error) == [kind |-> kind, error |-> error]

\* XorgEnv::load() on a build for target_os; its io::Result is always Ok
XorgEnv_load(target_os) ==
    IF target_os = "linux" THEN Some("XorgEnv") ELSE None

\* struct NoSupportedGraphicalEnv
NoSupportedGraphicalEnv == [tag |-> "NoSupportedGraphicalEnv"]

\* The io::Error of a command (xrandr) that could not be run
CommandError(call, kind) == IoError(kind, [tag |-> call])

\* The kinds of io::Error the operating system gives to a command that does
\* not start or to a handler that is not registered: no such program, no
\* permission, any other.
OsErrorKinds == {"NotFound", "PermissionDenied", "Other"}

\* ConfigArgs::create_hour_config
create_hour_config(self) ==
    HourConfig_new(timelike_to_hours(self.day_start),
                   timelike_to_hours(self.dusk_start),
                   timelike_to_hours(self.night_start))

\* ConfigArgs::create_channels_config: the first error in the order red,
\* green, blue, or the three channels
create_channels_config(self) ==
    LET red == ChannelConfig_new(self.min_red, self.max_red)
        green == ChannelConfig_new(self.min_green, self.max_green)
        blue == ChannelConfig_new(self.min_blue, self.max_blue)
    IN  IF red.tag = "Err" THEN red
        ELSE IF green.tag = "Err" THEN green
        ELSE IF blue.tag = "Err" THEN blue
        ELSE Ok(<<red.value, green.value, blue.value>>)

\* ConfigArgs::create_config
create_config(self) ==
    LET hours_loc == create_hour_config(self)
        channels_loc == create_channels_config(self)
    IN  IF hours_loc.tag = "Err" THEN Err(IoError("InvalidInput", hours_loc.error))
        ELSE IF channels_loc.tag = "Err"
        THEN Err(IoError("InvalidInput", channels_loc.error))
        ELSE Ok(Config(hours_loc.value, channels_loc.value))

\* create_color_channels(config, time), where now is what Local::now()
\* reads
create_color_channels(config, time, now) ==
    LET hours_loc == IF time.tag = "Some" THEN timelike_to_hours(time.value)
                 ELSE timelike_to_hours(now)
    IN  gamma_function(config, hours_loc)

\* The environment call a Serve round or Apply goes to next
monitors_call(self) ==
    IF self.monitors.tag = "Some" THEN "apply_gamma" ELSE "list_monitors"

----------------------------------------------------------------------------
(* The state: the values a caller of the library holds.  A configuration   *)
(* is built as ConfigArgs::create_config builds it (cli.rs): the hours     *)
(* first, then the channels red, green, blue, stopping at the first error; *)
(* then one of the three evaluation functions is applied at a time of day. *)

VARIABLES
    hours_args,     \* the arguments of the HourConfig::new call, or None
    hours,          \* its Result<HourConfig, InvalidDayPhases>, or None
    channel_args,   \* the arguments of the last ChannelConfig::new call
    channel,        \* its Result<ChannelConfig, InvalidChannelBounds>
    channels,       \* the ChannelConfig values built so far, in order
    current_hour,   \* the time of day the evaluation was called with
    phase,          \* the result of DayPhase::from_current_hour
    channel_value,  \* the result of linear_channel_function
    lib_channel_value, \* the result of lib.rs's linear_channel_function
    gamma           \* the result of gamma_function

core_vars == <<hours_args, hours, channel_args, channel, channels,
               current_hour, phase, channel_value, lib_channel_value, gamma>>

\* A user of lib.rs holds one HourConfig, replaced by each with_* call that
\* returns, and classifies times of day with it.
VARIABLES
    lib_hours,          \* the HourConfig instance held
    lib_hours_call,     \* the last with_* call: its name, self and argument
    lib_hours_result,   \* what the call returned, or its panic
    lib_hour,           \* the time of day the classifier was called with
    lib_phase           \* the result of DayPhase::from_current_hour (lib.rs)

lib_hours_vars ==
    <<lib_hours, lib_hours_call, lib_hours_result, lib_hour, lib_phase>>

\* Another user of lib.rs holds one ChannelConfig.
VARIABLES
    lib_channel,        \* the ChannelConfig instance held
    lib_channel_call,   \* the last with_* call: its name, self and argument
    lib_channel_result  \* what the call returned, or its panic

lib_channel_vars == <<lib_channel, lib_channel_call, lib_channel_result>>

\* The conversions of times of day done so far.
VARIABLES
    timelikes,          \* the Timelike values converted, in order of call
    day_hours           \* the results of timelike_to_hours, in order of call

time_vars == <<timelikes, day_hours>>

\* One run of the command line program.
VARIABLES
    cli_program,    \* the Program given to with_os_graphical_env, or None
    cli_env,        \* what XorgEnv::load() returned
    cli_method,     \* the method of the context that was called, or "none"
    cli_config,     \* the result of ConfigArgs::create_config
    cli_gamma,      \* the gamma last computed
    cli_calls,      \* the calls made to the graphical environment
    cli_rounds,     \* the rounds of the Serve loop completed
    cli_validations, \* the calls of ConfigArgs::create_config made
    cli_stdout,     \* the line printed
    cli_result,     \* the io::Result returned
    cli_pc          \* where the run is: idle, at a call of the environment,
                    \* sleeping, or returned

cli_vars == <<cli_program, cli_env, cli_method, cli_config, cli_gamma,
              cli_calls, cli_rounds, cli_validations, cli_stdout, cli_result,
              cli_pc>>

\* One run of the daemon of bin/circadianlight.rs.
VARIABLES
    daemon_self,        \* the DaemonSubCommand run, or None
    daemon_registered,  \* the signals whose handler sets the flag
    daemon_terminate,   \* the AtomicBool terminate
    daemon_flagged,     \* the tests and commands done when the flag was set
    daemon_tests,       \* how many times the loop condition was evaluated
    daemon_monitors,    \* the monitors the command of this round is for
    daemon_log,         \* the xrandr commands run, in order, with outcomes
    daemon_result,      \* the io::Result returned by run
    daemon_pc           \* where run is

daemon_vars == <<daemon_self, daemon_registered, daemon_terminate,
                 daemon_flagged, daemon_tests, daemon_monitors, daemon_log,
                 daemon_result, daemon_pc>>

\* A user of time.rs holds two Time values and combines them.
VARIABLES
    arith_operands,     \* the Time values built, in order
    arith_call,         \* the operator applied to them and the build
    arith_result,       \* its result, or its panic
    arith_back          \* for a - b, the result of (a - b) + b

arith_vars == <<arith_operands, arith_call, arith_result, arith_back>>

\* A caller of the two formatters holds one gamma vector and what each made
\* of it.
VARIABLES
    fmt_gamma,          \* the gamma vector formatted
    fmt_env_string,     \* what XorgEnv::format_gamma returned
    fmt_bin_string,     \* what the binaries' format! returned
    fmt_env_command     \* the xrandr command XorgEnv::apply_gamma ran

fmt_vars == <<fmt_gamma, fmt_env_string, fmt_bin_string, fmt_env_command>>

vars == <<core_vars, lib_hours_vars, lib_channel_vars, time_vars, cli_vars,
          daemon_vars, arith_vars, fmt_vars>>

\* What the steps of each part of the program leave alone.
outside_core == <<lib_hours_vars, lib_channel_vars, time_vars, cli_vars,
                  daemon_vars, arith_vars, fmt_vars>>

outside_lib_hours == <<core_vars, lib_channel_vars, time_vars, cli_vars,
                       daemon_vars, arith_vars, fmt_vars>>

outside_lib_channel == <<core_vars, lib_hours_vars, time_vars, cli_vars,
                         daemon_vars, arith_vars, fmt_vars>>

outside_time == <<core_vars, lib_hours_vars, lib_channel_vars, cli_vars,
                  daemon_vars, arith_vars, fmt_vars>>

outside_cli == <<core_vars, lib_hours_vars, lib_channel_vars, time_vars,
                 daemon_vars, arith_vars, fmt_vars>>

outside_daemon == <<core_vars, lib_hours_vars, lib_channel_vars, time_vars,
                    cli_vars, arith_vars, fmt_vars>>

outside_arith == <<core_vars, lib_hours_vars, lib_channel_vars, time_vars,
                   cli_vars, daemon_vars, fmt_vars>>

outside_fmt == <<core_vars, lib_hours_vars, lib_channel_vars, time_vars,
                 cli_vars, daemon_vars, arith_vars>>

\* Arguments given for the day phases: the grid in [0,1), and one value
\* outside of it (the constructor accepts any f64).
HourInputs == {Rat(k, HourGrid) : k \in -1..(HourGrid - 1)}

\* The times of day of the tests of channel.rs: noon, 19 h and 23 h.
TestTimes == {Rat(12, 24), Rat(19, 24), Rat(23, 24)}

\* The last f64 before each boundary of the grid: the time of day that is
\* still on the near side of the boundary
LastTimesBefore == {NextDown(Rat(k, HourGrid)) : k \in 1..(HourGrid - 1)}

\* Times of day: the grid in [0,1), what timelike_to_hours produces, the
\* times of the tests, and the last f64 before each boundary.
TimeInputs ==
    {Rat(k, HourGrid) : k \in 0..(HourGrid - 1)} \cup TestTimes \cup LastTimesBefore

\* Arguments given for the channel bounds: the grid in (0,1].
ChannelInputs == {Rat(k, ChanGrid) : k \in 1..ChanGrid}

\* Bounds written in decimal, which no f64 holds exactly: 0.3, the default
\* --min-blue of cli.rs, under 0.9, the max of the tests of channel.rs
DecimalBounds == <<Rat(3, 10), Rat(9, 10)>>

\* The (min, max) given for the channel pushed after n others: the pairs of
\* the grid, and for the first channel the decimal bounds
ChannelBoundsInputs(n) ==
    (ChannelInputs \X ChannelInputs) \cup (IF n = 0 THEN {DecimalBounds} ELSE {})

Init ==
    /\ hours_args = None
    /\ hours = None
    /\ channel_args = None
    /\ channel = None
    /\ channels = <<>>
    /\ current_hour = None
    /\ phase = None
    /\ channel_value = None
    /\ lib_channel_value = None
    /\ gamma = None
    /\ lib_hours = lib_HourConfig_default
    /\ lib_hours_call = None
    /\ lib_hours_result = None
    /\ lib_hour = None
    /\ lib_phase = None
    /\ lib_channel = ChannelConfig_default
    /\ lib_channel_call = None
    /\ lib_channel_result = None
    /\ timelikes = <<>>
    /\ day_hours = <<>>
    /\ cli_program = None
    /\ cli_env = None
    /\ cli_method = "none"
    /\ cli_config = None
    /\ cli_gamma = None
    /\ cli_calls = {}
    /\ cli_rounds = 0
    /\ cli_validations = 0
    /\ cli_stdout = None
    /\ cli_result = None
    /\ cli_pc = "idle"
    /\ daemon_self = None
    /\ daemon_registered = {}
    /\ daemon_terminate = FALSE
    /\ daemon_flagged = None
    /\ daemon_tests = 0
    /\ daemon_monitors = <<>>
    /\ daemon_log = <<>>
    /\ daemon_result = None
    /\ daemon_pc = "idle"
    /\ arith_operands = <<>>
    /\ arith_call = None
    /\ arith_result = None
    /\ arith_back = None
    /\ fmt_gamma = None
    /\ fmt_env_string = None
    /\ fmt_bin_string = None
    /\ fmt_env_command = None

\* let hours = HourConfig::new(day_start, dusk_start, night_start)
CallHourConfigNew(day_start, dusk_start, night_start) ==
    /\ hours = None
    /\ hours_args' = <<day_start, dusk_start, night_start>>
    /\ hours' = HourConfig_new(day_start, dusk_start, night_start)
    /\ UNCHANGED <<channel_args, channel, channels, current_hour, phase,
                   channel_value, gamma>>
    /\ UNCHANGED lib_channel_value
    /\ UNCHANGED outside_core

\* let hours = HourConfig::default()
CallHourConfigDefault ==
    /\ hours = None
    /\ hours' = Ok(HourConfig_default)
    /\ UNCHANGED <<hours_args, channel_args, channel, channels, current_hour,
                   phase, channel_value, gamma>>
    /\ UNCHANGED lib_channel_value
    /\ UNCHANGED outside_core

\* let Config { hours, channels } = Config::default()
CallConfigDefault ==
    /\ hours = None
    /\ hours' = Ok(Config_default.hours)
    /\ channels' = Config_default.channels
    /\ UNCHANGED <<hours_args, channel_args, channel, current_hour, phase,
                   channel_value, gamma>>
    /\ UNCHANGED lib_channel_value
    /\ UNCHANGED outside_core

\* channels.push(ChannelConfig::new(min, max)?)
CallChannelConfigNew(min, max) ==
    /\ hours.tag = "Ok"
    /\ channel.tag # "Err"
    /\ Len(channels) < 3
    /\ current_hour = None
    /\ channel_args' = <<min, max>>
    /\ channel' = ChannelConfig_new(min, max)
    /\ channels' = IF channel'.tag = "Ok"
                   THEN Append(channels, channel'.value)
                   ELSE channels
    /\ UNCHANGED <<hours_args, hours, current_hour, phase, channel_value,
                   gamma>>
    /\ UNCHANGED lib_channel_value
    /\ UNCHANGED outside_core

\* let phase = DayPhase::from_current_hour(hours, t)
CallFromCurrentHour(t) ==
    /\ hours.tag = "Ok"
    /\ channels = <<>>
    /\ channel = None
    /\ current_hour = None
    /\ current_hour' = t
    /\ phase' = from_current_hour(hours.value, t)
    /\ UNCHANGED <<hours_args, hours, channel_args, channel, channels,
                   channel_value, gamma>>
    /\ UNCHANGED lib_channel_value
    /\ UNCHANGED outside_core

\* let channel_value = linear_channel_function(channels[0], hours)(t)
CallLinearChannelFunction(t) ==
    /\ hours.tag = "Ok"
    /\ Len(channels) = 1
    /\ current_hour = None
    /\ current_hour' = t
    /\ channel_value' = linear_channel_function(channels[1], hours.value, t)
    /\ UNCHANGED <<hours_args, hours, channel_args, channel, channels,
                   phase, gamma>>
    /\ UNCHANGED lib_channel_value
    /\ UNCHANGED outside_core

\* let gamma = gamma_function(Config { hours, channels })(t)
CallGammaFunction(t) ==
    /\ hours.tag = "Ok"
    /\ Len(channels) = 3
    /\ current_hour = None
    /\ current_hour' = t
    /\ gamma' = gamma_function(Config(hours.value, channels), t)
    /\ UNCHANGED <<hours_args, hours, channel_args, channel, channels,
                   phase, channel_value>>
    /\ UNCHANGED lib_channel_value
    /\ UNCHANGED outside_core

\* The same call made to the linear_channel_function of lib.rs:
\* let lib_channel_value = linear_channel_function(channels[0], hours, t)
CallLibLinearChannelFunction ==
    /\ channel_value # None
    /\ lib_channel_value = None
    /\ lib_channel_value' =
        lib_linear_channel_function(channels[1], hours.value, current_hour)
    /\ UNCHANGED <<hours_args, hours, channel_args, channel, channels,
                   current_hour, phase, channel_value, gamma>>
    /\ UNCHANGED outside_core

Next ==
    \/ \E d, u, n \in HourInputs : CallHourConfigNew(d, u, n)
    \/ CallHourConfigDefault
    \/ CallConfigDefault
    \/ \E bounds \in ChannelBoundsInputs(Len(channels)) :
            CallChannelConfigNew(bounds[1], bounds[2])
    \/ \E t \in TimeInputs : CallFromCurrentHour(t)
    \/ \E t \in TimeInputs : CallLinearChannelFunction(t)
    \/ CallLibLinearChannelFunction
    \/ \E t \in TimeInputs : CallGammaFunction(t)

Spec == Init /\ [][Next]_vars

----------------------------------------------------------------------------
(* The user of the HourConfig of lib.rs: any sequence of with_* calls from *)
(* the default, ended by a panic or by a classification.                   *)

\* self = self.with_day_start(day_start)
CallWithDayStart(day_start) ==
    /\ lib_hours_result # Panic
    /\ lib_hour = None
    /\ lib_hours_call' = [fn |-> "with_day_start", self |-> lib_hours,
                          arg |-> day_start]
    /\ lib_hours_result' = HourConfig_with_day_start(lib_hours, day_start)
    /\ lib_hours' = IF lib_hours_result' = Panic THEN lib_hours
                    ELSE lib_hours_result'
    /\ UNCHANGED <<lib_hour, lib_phase>>
    /\ UNCHANGED outside_lib_hours

\* self = self.with_dusk_start(dusk_start)
CallWithDuskStart(dusk_start) ==
    /\ lib_hours_result # Panic
    /\ lib_hour = None
    /\ lib_hours_call' = [fn |-> "with_dusk_start", self |-> lib_hours,
                          arg |-> dusk_start]
    /\ lib_hours_result' = HourConfig_with_dusk_start(lib_hours, dusk_start)
    /\ lib_hours' = IF lib_hours_result' = Panic THEN lib_hours
                    ELSE lib_hours_result'
    /\ UNCHANGED <<lib_hour, lib_phase>>
    /\ UNCHANGED outside_lib_hours

\* self = self.with_night_start(night_start)
CallWithNightStart(night_start) ==
    /\ lib_hours_result # Panic
    /\ lib_hour = None
    /\ lib_hours_call' = [fn |-> "with_night_start", self |-> lib_hours,
                          arg |-> night_start]
    /\ lib_hours_result' = HourConfig_with_night_start(lib_hours, night_start)
    /\ lib_hours' = IF lib_hours_result' = Panic THEN lib_hours
                    ELSE lib_hours_result'
    /\ UNCHANGED <<lib_hour, lib_phase>>
    /\ UNCHANGED outside_lib_hours

\* let phase = DayPhase::from_current_hour(self, t)
CallLibFromCurrentHour(t) ==
    /\ lib_hours_result # Panic
    /\ lib_hour = None
    /\ lib_hour' = t
    /\ lib_phase' = lib_from_current_hour(lib_hours, t)
    /\ UNCHANGED <<lib_hours, lib_hours_call, lib_hours_result>>
    /\ UNCHANGED outside_lib_hours

NextLibHours ==
    \/ \E day_start \in HourInputs : CallWithDayStart(day_start)
    \/ \E dusk_start \in HourInputs : CallWithDuskStart(dusk_start)
    \/ \E night_start \in HourInputs : CallWithNightStart(night_start)
    \/ \E t \in TimeInputs : CallLibFromCurrentHour(t)

SpecLibHours == Init /\ [][NextLibHours]_vars

----------------------------------------------------------------------------
(* The user of the ChannelConfig of lib.rs: any sequence of with_min and   *)
(* with_max calls from the default, ended by a panic.                      *)

\* Arguments given for a channel bound: the grid in [0,1], and one value on
\* each side of it (the assertions compare any f64).
BoundInputs == {Rat(k, ChanGrid) : k \in -1..(ChanGrid + 1)}

\* self = self.with_min(min)
CallWithMin(min) ==
    /\ lib_channel_result # Panic
    /\ lib_channel_call' = [fn |-> "with_min", self |-> lib_channel,
                            arg |-> min]
    /\ lib_channel_result' = ChannelConfig_with_min(lib_channel, min)
    /\ lib_channel' = IF lib_channel_result' = Panic THEN lib_channel
                      ELSE lib_channel_result'
    /\ UNCHANGED outside_lib_channel

\* self = self.with_max(max)
CallWithMax(max) ==
    /\ lib_channel_result # Panic
    /\ lib_channel_call' = [fn |-> "with_max", self |-> lib_channel,
                            arg |-> max]
    /\ lib_channel_result' = ChannelConfig_with_max(lib_channel, max)
    /\ lib_channel' = IF lib_channel_result' = Panic THEN lib_channel
                      ELSE lib_channel_result'
    /\ UNCHANGED outside_lib_channel

NextLibChannel ==
    \/ \E min \in BoundInputs : CallWithMin(min)
    \/ \E max \in BoundInputs : CallWithMax(max)

SpecLibChannel == Init /\ [][NextLibChannel]_vars

----------------------------------------------------------------------------
(* The conversion of times of day: timelike_to_hours is called on values   *)
(* of chrono's Timelike.                                                   *)

\* num_seconds_from_midnight(): seconds of the day, 0..86399.
SecondInputs ==
    (0..SecEdge) \cup (59..(59 + SecEdge)) \cup ((86399 - SecEdge)..86399)

\* nanosecond(): nanoseconds since the whole non-leap second; chrono counts
\* a leap second as 1,000,000,000..1,999,999,999.
NanoInputs ==
    {k * (1000000000 \div 2^NanoBits) : k \in 0..(2 * 2^NanoBits - 1)}

\* The Timelike values: chrono accepts a leap second only in the last second
\* of a minute.
TimelikeInputs ==
    {Timelike(s, n) : s \in SecondInputs, n \in NanoInputs} \
        {Timelike(s, n) : s \in {x \in SecondInputs : x % 60 # 59},
                          n \in {y \in NanoInputs : y >= 1000000000}}

\* let hour = timelike_to_hours(&timelike)
CallTimelikeToHours(timelike) ==
    /\ Len(timelikes) < MaxTimes
    /\ timelikes' = Append(timelikes, timelike)
    /\ day_hours' = Append(day_hours, timelike_to_hours(timelike))
    /\ UNCHANGED outside_time

NextTime == \E timelike \in TimelikeInputs : CallTimelikeToHours(timelike)

SpecTime == Init /\ [][NextTime]_vars

----------------------------------------------------------------------------
(* One run of the command line program: with_os_graphical_env(program),    *)
(* followed from one call of the graphical environment to the next.        *)

\* The times of day given as --day-start, --dusk-start and --night-start:
\* their default values 05:00, 17:00 and 21:00, in any order.
PhaseClocks == {Timelike(h * 3600, 0) : h \in {5, 17, 21}}

\* The times of day given as --time or read by Local::now().
TimeClocks == {Timelike(h * 3600, 0) : h \in {12, 19, 23}}

\* The ConfigArgs: for each channel its default bounds or a maximum below
\* the minimum.
ConfigArgsInputs ==
    [min_red : {One}, max_red : {One, Rat(1, 2)},
     min_green : {Rat(6, 10)}, max_green : {One, Rat(1, 2)},
     min_blue : {Rat(3, 10)}, max_blue : {One, Rat(2, 10)},
     day_start : PhaseClocks, dusk_start : PhaseClocks,
     night_start : PhaseClocks]

\* --monitors
MonitorsInputs == {None, Some(<<"eDP-1">>)}

\* --time
TimeArgInputs == {None} \cup {Some(t) : t \in TimeClocks}

\* The Program values (sleep_seconds is left out: it is only slept).
ProgramInputs ==
    [subcommand : {"Serve"}, monitors : MonitorsInputs,
     config_args : ConfigArgsInputs]
    \cup [subcommand : {"Print"}, time : TimeArgInputs,
          config_args : ConfigArgsInputs]
    \cup [subcommand : {"Apply"}, time : TimeArgInputs,
          monitors : MonitorsInputs, config_args : ConfigArgsInputs]

\* GraphicalEnvContext::without_graphical_env, the provided method: the
\* Unsupported error, and nothing else
GraphicalEnvContext_without_graphical_env ==
    /\ cli_config' = None
    /\ UNCHANGED cli_validations
    /\ cli_gamma' = None
    /\ cli_stdout' = None
    /\ cli_result' = Err(IoError("Unsupported", NoSupportedGraphicalEnv))
    /\ cli_pc' = "returned"

\* PrintSubCommand without its own without_graphical_env: the provided
\* method of the trait
PrintSubCommand_without_graphical_env_provided(self, now) ==
    GraphicalEnvContext_without_graphical_env

\* PrintSubCommand::without_graphical_env
PrintSubCommand_without_graphical_env(self, now) ==
    /\ cli_config' = create_config(self.config_args)
    /\ cli_validations' = cli_validations + 1
    /\ IF cli_config'.tag = "Err"
       THEN /\ cli_gamma' = None
            /\ cli_stdout' = None
            /\ cli_result' = cli_config'
       ELSE /\ cli_gamma' =
                create_color_channels(cli_config'.value, self.time, now)
            /\ cli_stdout' = [format |-> "plain", gamma |-> cli_gamma']
            /\ cli_result' = Ok(<<>>)
    /\ cli_pc' = "returned"

\* SubCommand::without_graphical_env: Serve and Apply have the provided
\* method
SubCommand_without_graphical_env(self, now) ==
    IF self.subcommand = "Print"
    THEN PrintSubCommand_without_graphical_env(self, now)
    ELSE GraphicalEnvContext_without_graphical_env

\* ServeSubCommand::with_graphical_env, up to the first call of the
\* environment in its loop, or its return
ServeSubCommand_with_graphical_env(self, now) ==
    /\ cli_config' = create_config(self.config_args)
    /\ cli_validations' = cli_validations + 1
    /\ cli_stdout' = None
    /\ IF cli_config'.tag = "Err"
       THEN /\ cli_gamma' = None
            /\ cli_result' = cli_config'
            /\ cli_pc' = "returned"
       ELSE /\ cli_gamma' = create_color_channels(cli_config'.value, None, now)
            /\ cli_result' = None
            /\ cli_pc' = monitors_call(self)

\* PrintSubCommand::with_graphical_env, up to its call of format_gamma
PrintSubCommand_with_graphical_env(self, now) ==
    /\ cli_config' = create_config(self.config_args)
    /\ cli_validations' = cli_validations + 1
    /\ cli_stdout' = None
    /\ IF cli_config'.tag = "Err"
       THEN /\ cli_gamma' = None
            /\ cli_result' = cli_config'
            /\ cli_pc' = "returned"
       ELSE /\ cli_gamma' =
                create_color_channels(cli_config'.value, self.time, now)
            /\ cli_result' = None
            /\ cli_pc' = "format_gamma"

\* ApplySubCommand::with_graphical_env, up to its first call of the
\* environment
ApplySubCommand_with_graphical_env(self, now) ==
    /\ cli_config' = create_config(self.config_args)
    /\ cli_validations' = cli_validations + 1
    /\ cli_stdout' = None
    /\ IF cli_config'.tag = "Err"
       THEN /\ cli_gamma' = None
            /\ cli_result' = cli_config'
            /\ cli_pc' = "returned"
       ELSE /\ cli_gamma' =
                create_color_channels(cli_config'.value, self.time, now)
            /\ cli_result' = None
            /\ cli_pc' = monitors_call(self)

\* SubCommand::with_graphical_env
SubCommand_with_graphical_env(self, now) ==
    IF self.subcommand = "Serve"
    THEN ServeSubCommand_with_graphical_env(self, now)
    ELSE IF self.subcommand = "Print"
    THEN PrintSubCommand_with_graphical_env(self, now)
    ELSE ApplySubCommand_with_graphical_env(self, now)

\* with_os_graphical_env(program), on a build for target_os, up to the first
\* call of the environment or the return
CallWithOsGraphicalEnv(program, target_os, now) ==
    /\ cli_pc = "idle"
    /\ cli_program' = program
    /\ cli_env' = XorgEnv_load(target_os)
    /\ IF cli_env'.tag = "Some"
       THEN /\ cli_method' = "with_graphical_env"
            /\ SubCommand_with_graphical_env(program, now)
       ELSE /\ cli_method' = "without_graphical_env"
            /\ SubCommand_without_graphical_env(program, now)
    /\ UNCHANGED <<cli_calls, cli_rounds>>
    /\ UNCHANGED outside_cli

\* let monitors = graphical_env.list_monitors()?
ListMonitors(ok) ==
    /\ cli_pc = "list_monitors"
    /\ cli_calls' = cli_calls \cup {"list_monitors"}
    /\ IF ok
       THEN cli_pc' = "apply_gamma" /\ UNCHANGED cli_result
       ELSE /\ cli_pc' = "returned"
            /\ \E kind \in OsErrorKinds :
                cli_result' = Err(CommandError("list_monitors", kind))
    /\ UNCHANGED <<cli_program, cli_env, cli_method, cli_config, cli_gamma,
                   cli_rounds, cli_validations, cli_stdout>>
    /\ UNCHANGED outside_cli

\* graphical_env.apply_gamma(gamma, monitors)?, then Ok(()) for Apply and
\* the sleep for Serve
ApplyGamma(ok) ==
    /\ cli_pc = "apply_gamma"
    /\ cli_calls' = cli_calls \cup {"apply_gamma"}
    /\ IF ~ok
       THEN /\ cli_pc' = "returned"
            /\ \E kind \in OsErrorKinds :
                cli_result' = Err(CommandError("apply_gamma", kind))
       ELSE IF cli_program.subcommand = "Apply"
       THEN cli_pc' = "returned" /\ cli_result' = Ok(<<>>)
       ELSE cli_pc' = "sleep" /\ UNCHANGED cli_result
    /\ UNCHANGED <<cli_program, cli_env, cli_method, cli_config, cli_gamma,
                   cli_rounds, cli_validations, cli_stdout>>
    /\ UNCHANGED outside_cli

\* The next round of Serve with the configuration built again in the loop
Sleep_revalidating(now) ==
    /\ cli_pc = "sleep"
    /\ cli_rounds < MaxRounds
    /\ cli_rounds' = cli_rounds + 1
    /\ cli_config' = create_config(cli_program.config_args)
    /\ cli_validations' = cli_validations + 1
    /\ cli_gamma' = create_color_channels(cli_config'.value, None, now)
    /\ cli_pc' = monitors_call(cli_program)
    /\ UNCHANGED <<cli_program, cli_env, cli_method, cli_calls, cli_stdout,
                   cli_result>>
    /\ UNCHANGED outside_cli

\* thread::sleep(..) returns and the loop of Serve starts its next round
Sleep(now) ==
    /\ cli_pc = "sleep"
    /\ cli_rounds < MaxRounds
    /\ cli_rounds' = cli_rounds + 1
    /\ cli_gamma' = create_color_channels(cli_config.value, None, now)
    /\ cli_pc' = monitors_call(cli_program)
    /\ UNCHANGED <<cli_program, cli_env, cli_method, cli_config, cli_calls,
                   cli_validations, cli_stdout, cli_result>>
    /\ UNCHANGED outside_cli

\* println!("{}", graphical_env.format_gamma(gamma)?); Ok(())
FormatGamma ==
    /\ cli_pc = "format_gamma"
    /\ cli_calls' = cli_calls \cup {"format_gamma"}
    /\ cli_stdout' = [format |-> "XorgEnv", gamma |-> cli_gamma]
    /\ cli_result' = Ok(<<>>)
    /\ cli_pc' = "returned"
    /\ UNCHANGED <<cli_program, cli_env, cli_method, cli_config, cli_gamma,
                   cli_rounds, cli_validations>>
    /\ UNCHANGED outside_cli

NextCli ==
    \/ \E program \in ProgramInputs, target_os \in {"linux", "other"},
          now \in TimeClocks :
            CallWithOsGraphicalEnv(program, target_os, now)
    \/ \E ok \in BOOLEAN : ListMonitors(ok)
    \/ \E ok \in BOOLEAN : ApplyGamma(ok)
    \/ \E now \in TimeClocks : Sleep(now)
    \/ FormatGamma

SpecCli == Init /\ [][NextCli]_vars

----------------------------------------------------------------------------
(* One run of the daemon of bin/circadianlight.rs: DaemonSubCommand::run,  *)
(* followed from one xrandr command to the next, with the signals that     *)
(* arrive meanwhile.                                                       *)

\* The DaemonSubCommand values (sleep_seconds is left out: it is only
\* slept).
DaemonInputs == [monitors : MonitorsInputs]

\* What xrandr --listmonitors may list.
ListedInputs == {<<"eDP-1">>, <<"eDP-1", "HDMI-1">>}

\* One xrandr command run by apply, and whether output() returned Ok
Command(call, args, ok) == [call |-> call, args |-> args, ok |-> ok]

\* How many commands of the log set the gamma
GammaCommands(log) ==
    Cardinality({i \in 1..Len(log) : log[i].call = "gamma"})

\* let terminate = Arc::new(AtomicBool::new(false))
DaemonRun(self) ==
    /\ daemon_pc = "idle"
    /\ daemon_self' = self
    /\ daemon_terminate' = FALSE
    /\ daemon_pc' = "register_sigint"
    /\ UNCHANGED <<daemon_registered, daemon_flagged, daemon_tests,
                   daemon_monitors, daemon_log, daemon_result>>
    /\ UNCHANGED outside_daemon

\* signal_hook::flag::register(SIGINT, terminate.clone())?
RegisterSigint(ok) ==
    /\ daemon_pc = "register_sigint"
    /\ IF ok
       THEN /\ daemon_registered' = daemon_registered \cup {"SIGINT"}
            /\ daemon_pc' = "register_sigterm"
            /\ UNCHANGED daemon_result
       ELSE /\ \E kind \in OsErrorKinds :
                daemon_result' = Err(CommandError("register", kind))
            /\ daemon_pc' = "returned"
            /\ UNCHANGED daemon_registered
    /\ UNCHANGED <<daemon_self, daemon_terminate, daemon_flagged,
                   daemon_tests, daemon_monitors, daemon_log>>
    /\ UNCHANGED outside_daemon

\* signal_hook::flag::register(SIGTERM, terminate.clone())?
RegisterSigterm(ok) ==
    /\ daemon_pc = "register_sigterm"
    /\ IF ok
       THEN /\ daemon_registered' = daemon_registered \cup {"SIGTERM"}
            /\ daemon_pc' = "test"
            /\ UNCHANGED daemon_result
       ELSE /\ \E kind \in OsErrorKinds :
                daemon_result' = Err(CommandError("register", kind))
            /\ daemon_pc' = "returned"
            /\ UNCHANGED daemon_registered
    /\ UNCHANGED <<daemon_self, daemon_terminate, daemon_flagged,
                   daemon_tests, daemon_monitors, daemon_log>>
    /\ UNCHANGED outside_daemon

\* A registered signal arrives while run is executing: its handler stores
\* true in the flag
Signal(sig) ==
    /\ daemon_pc \notin {"idle", "returned"}
    /\ sig \in daemon_registered
    /\ daemon_terminate' = TRUE
    /\ daemon_flagged' =
        IF daemon_terminate THEN daemon_flagged
        ELSE [tag |-> "Some", tests |-> daemon_tests,
              applies |-> GammaCommands(daemon_log)]
    /\ UNCHANGED <<daemon_self, daemon_registered, daemon_tests,
                   daemon_monitors, daemon_log, daemon_result, daemon_pc>>
    /\ UNCHANGED outside_daemon

\* The loop condition tested after the body instead of before it
LoopTest_after_body ==
    /\ daemon_pc = "test"
    /\ daemon_tests' = daemon_tests + 1
    /\ IF daemon_terminate /\ daemon_tests > 0
       THEN /\ daemon_result' = Ok(<<>>)
            /\ daemon_pc' = "returned"
            /\ UNCHANGED daemon_monitors
       ELSE /\ GammaCommands(daemon_log) < MaxApplies
            /\ UNCHANGED daemon_result
            /\ IF daemon_self.monitors.tag = "Some"
               THEN /\ daemon_monitors' = daemon_self.monitors.value
                    /\ daemon_pc' = "command"
               ELSE /\ UNCHANGED daemon_monitors
                    /\ daemon_pc' = "listmonitors"
    /\ UNCHANGED <<daemon_self, daemon_registered, daemon_terminate,
                   daemon_flagged, daemon_log>>
    /\ UNCHANGED outside_daemon

\* while !terminate.load(Relaxed) { .. } Ok(()), and in apply the match on
\* monitors
LoopTest ==
    /\ daemon_pc = "test"
    /\ daemon_tests' = daemon_tests + 1
    /\ IF daemon_terminate
       THEN /\ daemon_result' = Ok(<<>>)
            /\ daemon_pc' = "returned"
            /\ UNCHANGED daemon_monitors
       ELSE /\ GammaCommands(daemon_log) < MaxApplies
            /\ UNCHANGED daemon_result
            /\ IF daemon_self.monitors.tag = "Some"
               THEN /\ daemon_monitors' = daemon_self.monitors.value
                    /\ daemon_pc' = "command"
               ELSE /\ UNCHANGED daemon_monitors
                    /\ daemon_pc' = "listmonitors"
    /\ UNCHANGED <<daemon_self, daemon_registered, daemon_terminate,
                   daemon_flagged, daemon_log>>
    /\ UNCHANGED outside_daemon

\* apply: Command::new("xrandr").arg("--listmonitors") .. .output()?, and
\* the monitors read from its output
DaemonListMonitors(ok, listed) ==
    /\ daemon_pc = "listmonitors"
    /\ daemon_log' =
        Append(daemon_log, Command("listmonitors", <<"--listmonitors">>, ok))
    /\ IF ok
       THEN /\ daemon_monitors' = listed
            /\ daemon_pc' = "command"
            /\ UNCHANGED daemon_result
       ELSE /\ \E kind \in OsErrorKinds :
                daemon_result' = Err(CommandError("listmonitors", kind))
            /\ daemon_pc' = "returned"
            /\ UNCHANGED daemon_monitors
    /\ UNCHANGED <<daemon_self, daemon_registered, daemon_terminate,
                   daemon_flagged, daemon_tests>>
    /\ UNCHANGED outside_daemon

\* format_gamma(None) at each reading of the clock: the reading and the
\* string it returns
DaemonClockReadings ==
    {[now |-> now, formatted |-> bin_format_gamma(None, now)] :
        now \in TimeClocks}

\* apply: apply_command(None, monitors), whose format_gamma(None) reads the
\* clock, then command.output()?; Ok(())
DaemonCommand(ok, now) ==
    /\ daemon_pc = "command"
    /\ \E reading \in DaemonClockReadings :
        /\ reading.now = now
        /\ daemon_log' =
            Append(daemon_log,
                   Command("gamma",
                           xrandr_args(reading.formatted, daemon_monitors),
                           ok))
    /\ IF ok
       THEN daemon_pc' = "sleep" /\ UNCHANGED daemon_result
       ELSE /\ \E kind \in OsErrorKinds :
                daemon_result' = Err(CommandError("gamma", kind))
            /\ daemon_pc' = "returned"
    /\ UNCHANGED <<daemon_self, daemon_registered, daemon_terminate,
                   daemon_flagged, daemon_tests, daemon_monitors>>
    /\ UNCHANGED outside_daemon

\* thread::sleep(Duration::from_secs(self.sleep_seconds)) returns
DaemonSleep ==
    /\ daemon_pc = "sleep"
    /\ daemon_pc' = "test"
    /\ UNCHANGED <<daemon_self, daemon_registered, daemon_terminate,
                   daemon_flagged, daemon_tests, daemon_monitors, daemon_log,
                   daemon_result>>
    /\ UNCHANGED outside_daemon

\* The steps of run itself
DaemonStep ==
    \/ \E ok \in BOOLEAN : RegisterSigint(ok)
    \/ \E ok \in BOOLEAN : RegisterSigterm(ok)
    \/ LoopTest
    \/ \E ok \in BOOLEAN, listed \in ListedInputs :
        DaemonListMonitors(ok, listed)
    \/ \E ok \in BOOLEAN, now \in TimeClocks : DaemonCommand(ok, now)
    \/ DaemonSleep

NextDaemon ==
    \/ \E self \in DaemonInputs : DaemonRun(self)
    \/ \E sig \in {"SIGINT", "SIGTERM"} : Signal(sig)
    \/ DaemonStep

SpecDaemon == Init /\ [][NextDaemon]_vars

\* The process is scheduled, xrandr exits and the sleep ends: a step of run
\* that can be taken is taken.
FairSpecDaemon == SpecDaemon /\ WF_vars(DaemonStep)

----------------------------------------------------------------------------
(* The user of time.rs: two Time values are built, then added or           *)
(* subtracted; after a subtraction the right operand is added back.        *)

\* Arguments of Time::new_cycling: the minutes next to midnight on both
\* sides, noon, and the first and the last u16 that are not a time of day.
TotalMinutesInputs ==
    (0..MinuteEdge) \cup {12 * MINUTE_COUNT}
    \cup ((TOTAL_MINUTE_COUNT - 1 - MinuteEdge)..TOTAL_MINUTE_COUNT)
    \cup {U16 - 1}

\* let time = Time::new_cycling(total_minutes)
CallNewCycling(total_minutes) ==
    /\ Len(arith_operands) < 2
    /\ arith_operands' = Append(arith_operands, Time_new_cycling(total_minutes))
    /\ UNCHANGED <<arith_call, arith_result, arith_back>>
    /\ UNCHANGED outside_arith

\* let result = a + b
CallTimeAdd(overflow_checks) ==
    /\ Len(arith_operands) = 2
    /\ arith_call = None
    /\ arith_call' = [op |-> "add", overflow_checks |-> overflow_checks]
    /\ arith_result' =
        Time_add(arith_operands[1], arith_operands[2], overflow_checks)
    /\ UNCHANGED <<arith_operands, arith_back>>
    /\ UNCHANGED outside_arith

\* let result = a - b
CallTimeSub(overflow_checks) ==
    /\ Len(arith_operands) = 2
    /\ arith_call = None
    /\ arith_call' = [op |-> "sub", overflow_checks |-> overflow_checks]
    /\ arith_result' =
        Time_sub(arith_operands[1], arith_operands[2], overflow_checks)
    /\ UNCHANGED <<arith_operands, arith_back>>
    /\ UNCHANGED outside_arith

\* let back = result + b, after result = a - b
CallTimeAddBack ==
    /\ arith_call # None
    /\ arith_call.op = "sub"
    /\ arith_result # Panic
    /\ arith_back = None
    /\ arith_back' =
        Time_add(arith_result, arith_operands[2], arith_call.overflow_checks)
    /\ UNCHANGED <<arith_operands, arith_call, arith_result>>
    /\ UNCHANGED outside_arith

NextArith ==
    \/ \E total_minutes \in TotalMinutesInputs : CallNewCycling(total_minutes)
    \/ \E overflow_checks \in BOOLEAN : CallTimeAdd(overflow_checks)
    \/ \E overflow_checks \in BOOLEAN : CallTimeSub(overflow_checks)
    \/ CallTimeAddBack

SpecArith == Init /\ [][NextArith]_vars

----------------------------------------------------------------------------
(* The caller of the formatters: one gamma vector is formatted by          *)
(* XorgEnv::format_gamma, by the format! of the binaries, and passed to    *)
(* XorgEnv::apply_gamma.                                                   *)

\* Channel values of a gamma vector: the values of the grid, a value that
\* {:.3} has to round, a binary fraction half a thousandth from its
\* neighbours and the f64 next above it, a decimal one that is not a binary
\* fraction, and the negative number nearest to zero
GammaChannelInputs ==
    ChannelInputs \cup {Rat(2, 3), Rat(1, 16), NextUp(Rat(1, 16)), Rat(77, 80), FNeg(NextUp(Zero))}

GammaInputs ==
    {<<r, g, b>> : r \in GammaChannelInputs, g \in GammaChannelInputs, b \in GammaChannelInputs}

\* let string = env.format_gamma(gamma)
CallXorgEnvFormatGamma(gamma_vector) ==
    /\ fmt_gamma = None
    /\ fmt_gamma' = Some(gamma_vector)
    /\ fmt_env_string' = Some(XorgEnv_format_gamma(gamma_vector))
    /\ UNCHANGED <<fmt_bin_string, fmt_env_command>>
    /\ UNCHANGED outside_fmt

\* format!("{:.3}:{:.3}:{:.3}", gamma[0], gamma[1], gamma[2]) of the binaries,
\* on the same vector
CallBinFormat ==
    /\ fmt_gamma # None
    /\ fmt_bin_string = None
    /\ fmt_bin_string' = Some(bin_format(fmt_gamma.value))
    /\ UNCHANGED <<fmt_gamma, fmt_env_string, fmt_env_command>>
    /\ UNCHANGED outside_fmt

\* env.apply_gamma(gamma, monitors), on the same vector
CallXorgEnvApplyGamma(monitors, ok) ==
    /\ fmt_gamma # None
    /\ fmt_env_command = None
    /\ fmt_env_command' =
        LET formatted_gamma == XorgEnv_format_gamma(fmt_gamma.value)
        IN  Some(Command("xrandr", xrandr_args(formatted_gamma, monitors), ok))
    /\ UNCHANGED <<fmt_gamma, fmt_env_string, fmt_bin_string>>
    /\ UNCHANGED outside_fmt

NextFormat ==
    \/ \E gamma_vector \in GammaInputs : CallXorgEnvFormatGamma(gamma_vector)
    \/ CallBinFormat
    \/ \E monitors \in ListedInputs, ok \in BOOLEAN :
            CallXorgEnvApplyGamma(monitors, ok)

SpecFormat == Init /\ [][NextFormat]_vars

----------------------------------------------------------------------------
(* The real numbers that the f64 are: what the claims say of cyclic        *)
(* distances is decided without rounding, on natural numbers of any size   *)
(* held as their limbs of 14 bits, the last one first.                     *)

\* The limb i of n, zero past its end
At(n, i) == IF i >= 1 /\ i <= Len(n) THEN n[i] ELSE 0

\* The longer of the lengths of n and m
BigLen(n, m) == IF Len(n) < Len(m) THEN Len(m) ELSE Len(n)

\* n + m: a limb takes a carry when a limb before it overflows and every
\* limb between the two is full
BigAdd(n, m) ==
    CHOOSE r \in
        {[i \in 1..(BigLen(p[1], p[2]) + 1) |->
            (At(p[1], i) + At(p[2], i)
             + (IF \E j \in 1..(i - 1) :
                    /\ At(p[1], j) + At(p[2], j) >= Pow2(14)
                    /\ \A k \in (j + 1)..(i - 1) : At(p[1], k) + At(p[2], k) = Pow2(14) - 1
                THEN 1 ELSE 0)) % Pow2(14)] : p \in {<<n, m>>}} : TRUE

\* n - m for n >= m: a limb gives a borrow when a limb before it is too
\* small and every limb between the two is equal
BigSub(n, m) ==
    CHOOSE r \in
        {[i \in 1..Len(p[1]) |->
            (At(p[1], i) - At(p[2], i)
             - (IF \E j \in 1..(i - 1) :
                    /\ At(p[1], j) < At(p[2], j)
                    /\ \A k \in (j + 1)..(i - 1) : At(p[1], k) = At(p[2], k)
                THEN 1 ELSE 0)) % Pow2(14)] : p \in {<<n, m>>}} : TRUE

\* -1, 0 or 1 as n is below m, equal to it, or above it: the last limb
\* where they differ decides
BigCmp(n, m) ==
    CHOOSE r \in
        {IF \A i \in 1..BigLen(p[1], p[2]) : At(p[1], i) = At(p[2], i) THEN 0
         ELSE CHOOSE s \in
                {IF At(p[1], last) < At(p[2], last) THEN -1 ELSE 1 :
                    last \in {i \in 1..BigLen(p[1], p[2]) :
                                /\ At(p[1], i) # At(p[2], i)
                                /\ \A j \in (i + 1)..BigLen(p[1], p[2]) : At(p[1], j) = At(p[2], j)}} : TRUE : p \in {<<n, m>>}} : TRUE

\* The k last bits of n
BigLow(n, k) ==
    CHOOSE r \in
        {IF Len(p[1]) <= p[2] \div 14 THEN p[1]
         ELSE SubSeq(p[1], 1, p[2] \div 14) \o <<p[1][p[2] \div 14 + 1] % Pow2(p[2] % 14)>> : p \in {<<n, k>>}} : TRUE

\* The real number that the finite f64 a is, with no rounding to come:
\* (IF neg THEN -1 ELSE 1) * mag * 2^exp, mag a natural number of any size
Exact(a) ==
    IF IsZero(a) THEN [neg |-> FALSE, mag |-> <<>>, exp |-> 0]
    ELSE [neg |-> a.sign = -1, mag |-> Limbs(<<a.hi, a.lo>>), exp |-> a.exp]

\* The real number y - x of two finite f64, exactly
ExactSub(y, x) ==
    CHOOSE r \in
        {IF p[1].neg # p[2].neg
         THEN [neg |-> p[1].neg, mag |-> BigAdd(p[3], p[4]), exp |-> p[5]]
         ELSE IF BigCmp(p[3], p[4]) >= 0
         THEN [neg |-> p[1].neg, mag |-> BigSub(p[3], p[4]), exp |-> p[5]]
         ELSE [neg |-> ~p[1].neg, mag |-> BigSub(p[4], p[3]), exp |-> p[5]] :
            p \in {<<Exact(y), Exact(x),
                     BigShl(Exact(y).mag, Exact(y).exp - (IF Exact(y).exp < Exact(x).exp THEN Exact(y).exp ELSE Exact(x).exp)),
                     BigShl(Exact(x).mag, Exact(x).exp - (IF Exact(y).exp < Exact(x).exp THEN Exact(y).exp ELSE Exact(x).exp)),
                     IF Exact(y).exp < Exact(x).exp THEN Exact(y).exp ELSE Exact(x).exp>>}} : TRUE

\* z mod 1 of the real number z, in [0,1): <<mag, exp>> for mag * 2^exp
ExactMod1(z) ==
    CHOOSE r \in
        {IF p[1].exp >= 0 \/ BigIsZero(p[2]) THEN <<<<>>, 0>>
         ELSE IF p[1].neg THEN <<BigSub(BigShl(<<1>>, -p[1].exp), p[2]), p[1].exp>>
         ELSE <<p[2], p[1].exp>> : p \in {<<z, IF z.exp >= 0 THEN <<>> ELSE BigLow(z.mag, -z.exp)>>}} : TRUE

\* cyc(x, y) = (y - x) mod 1 on the real numbers that x and y are
Cyc(x, y) == ExactMod1(ExactSub(y, x))

\* a < b for two real numbers in [0,1) given as <<mag, exp>>
ExactLt(a, b) ==
    \A p \in {<<a, b, IF a[2] < b[2] THEN a[2] ELSE b[2]>>} :
        BigCmp(BigShl(p[1][1], p[1][2] - p[3]), BigShl(p[2][1], p[2][2] - p[3])) < 0

\* cyc(x, y) < cyc(x, z)
CycLt(x, y, z) == ExactLt(Cyc(x, y), Cyc(x, z))

\* The number of bits of n
BigBits(n) ==
    CHOOSE r \in
        {IF BigIsZero(p) THEN 0
         ELSE CHOOSE s \in
                {(last - 1) * 14 + BitLen(p[last]) :
                    last \in {i \in 1..Len(p) : p[i] # 0 /\ \A j \in (i + 1)..Len(p) : p[j] = 0}} : TRUE : p \in {n}} : TRUE

\* The f64 nearest to the real number c = <<mag, exp>>: its first 56 bits
\* and whether a bit is set after them, rounded
ExactF64(c) ==
    CHOOSE r \in
        {Pack(1, At(s[1][1], 4) * Pow2(14) + At(s[1][1], 3), At(s[1][1], 2) * Pow2(14) + At(s[1][1], 1), s[1][2], s[2]) :
            s \in {<<BigShr(p[1], p[3]), p[2] + p[3]>> :
                    p \in {<<q[1], q[2], IF BigBits(q[1]) > 56 THEN BigBits(q[1]) - 56 ELSE 0>> : q \in {c}}}} : TRUE

\* cyc(x, y) as an f64: the nearest to it
CycF64(x, y) == ExactF64(Cyc(x, y))

\* 2^-40: how far the f64 of a formula may be from the number the formula
\* stands for, each of its operations having rounded
Tolerance == Finite(1, -92, Pow2(24), 0)

\* a is b up to the rounding of the operations that computed them
Near(a, b) == FLe(FSub(a, b), Tolerance) /\ FLe(FSub(b, a), Tolerance)

\* a == b, or both are NaN: the two f64 are the same value
Same(a, b) == FEq(a, b) \/ (IsNaN(a) /\ IsNaN(b))

\* v is the f64 w or one of the two next to it
Adjacent(v, w) == v = w \/ v = NextUp(w) \/ v = NextDown(w)

----------------------------------------------------------------------------
(* The three rotations of the day -> dusk -> night -> day cycle, as the    *)
(* specification states them.                                              *)

RotationA(d, u, n) == FLe(d, u) /\ FLe(u, n)

RotationB(d, u, n) == FLe(n, d) /\ FLe(d, u)

RotationC(d, u, n) == FLe(u, n) /\ FLe(n, d)

\* How many of the three rotations a triple satisfies.
RotationCount(d, u, n) ==
    Cardinality({r \in {"a", "b", "c"} :
        \/ r = "a" /\ RotationA(d, u, n)
        \/ r = "b" /\ RotationB(d, u, n)
        \/ r = "c" /\ RotationC(d, u, n)})

\* a is in [0,1)
InUnit(a) == FLe(Zero, a) /\ FLt(a, One)

\* The three boundaries of a schedule are in [0,1).
InRange(hc) ==
    InUnit(hc.day_start) /\ InUnit(hc.dusk_start) /\ InUnit(hc.night_start)

----------------------------------------------------------------------------
(* C1 *)

\* The boundary cases of HourConfig::new, and its tests in config.rs.
C1_Boundary ==
    /\ HourConfig_new(Rat(5, 10), Rat(1, 10), Rat(7, 10)).tag = "Err"
    /\ HourConfig_new(Rat(1, 10), Rat(5, 10), Rat(7, 10)).tag = "Ok"
    /\ HourConfig_new(Rat(5, 10), Rat(7, 10), Rat(1, 10)).tag = "Ok"
    /\ HourConfig_new(Rat(7, 10), Rat(1, 10), Rat(5, 10)).tag = "Ok"

\* C1: HourConfig::new(day, dusk, night) returns Ok exactly when one of the
\* three rotations holds, and then the HourConfig holds the three values;
\* for every other triple it returns Err(InvalidDayPhases) whose three fields
\* are the three given values.  The boundary cases of the specification:
\* (0.5, 0.1, 0.7) fails; (0.1, 0.5, 0.7), (0.5, 0.7, 0.1), (0.7, 0.1, 0.5)
\* succeed.
C1_HourConfigNewValidates ==
    /\ hours_args # None =>
        LET d == hours_args[1]
            u == hours_args[2]
            n == hours_args[3]
            valid == RotationA(d, u, n) \/ RotationB(d, u, n)
                        \/ RotationC(d, u, n)
        IN  /\ hours.tag \in {"Ok", "Err"}
            /\ hours.tag = "Ok" <=> valid
            /\ valid =>
                /\ hours.value.day_start = d
                /\ hours.value.dusk_start = u
                /\ hours.value.night_start = n
            /\ ~valid =>
                /\ hours.tag = "Err"
                /\ hours.error.day_start = d
                /\ hours.error.dusk_start = u
                /\ hours.error.night_start = n
    /\ C1_Boundary

\* An invalid triple was given and refused.
C1_Witness ==
    /\ hours_args # None
    /\ hours.tag = "Err"
    /\ FLt(hours_args[2], hours_args[1])
    /\ FLt(hours_args[1], hours_args[3])

----------------------------------------------------------------------------
(* C2 *)

\* The boundary cases of ChannelConfig::new, and its tests in config.rs.
C2_Boundary ==
    /\ ChannelConfig_new(Rat(9, 10), Rat(1, 10)).tag = "Err"
    /\ ChannelConfig_new(Rat(1, 10), Rat(9, 10)).tag = "Ok"
    /\ ChannelConfig_new(One, One).tag = "Ok"

\* C2: ChannelConfig::new(min, max) returns Ok exactly when min <= max
\* (min = max included), holding both values as given, and otherwise returns
\* Err(InvalidChannelBounds) carrying both values as given; the values are
\* never clamped or swapped.  The boundary cases of the specification:
\* (0.9, 0.1) fails; (0.1, 0.9) and (1.0, 1.0) succeed.
C2_ChannelConfigNewValidates ==
    /\ channel_args # None =>
        LET lo == channel_args[1]
            hi == channel_args[2]
        IN  /\ channel.tag \in {"Ok", "Err"}
            /\ channel.tag = "Ok" <=> FLe(lo, hi)
            /\ FLe(lo, hi) =>
                /\ channel.value.min = lo
                /\ channel.value.max = hi
                /\ channels[Len(channels)] = channel.value
            /\ ~FLe(lo, hi) =>
                /\ channel.tag = "Err"
                /\ channel.error.min = lo
                /\ channel.error.max = hi
    /\ C2_Boundary

\* Bounds with min = max were given and accepted.
C2_Witness ==
    /\ channel_args # None
    /\ channel_args[1] = channel_args[2]
    /\ channel.tag = "Ok"

----------------------------------------------------------------------------
(* C3 *)

\* C3: for every HourConfig obtained from HourConfig::new (Ok) or from
\* HourConfig::default and every current_hour in [0,1),
\* DayPhase::from_current_hour returns a phase and never reaches its final
\* panic! branch.
C3_ClassifierNeverPanics ==
    /\ phase # None => phase.tag \in {"Day", "Dusk", "Night"}
    /\ channel_value # Panic
    /\ gamma # Panic

\* A schedule that only the last rotation accepts was classified.
C3_Witness ==
    /\ hours.tag = "Ok"
    /\ phase # None
    /\ ~RotationA(hours.value.day_start, hours.value.dusk_start,
                  hours.value.night_start)
    /\ ~RotationB(hours.value.day_start, hours.value.dusk_start,
                  hours.value.night_start)

----------------------------------------------------------------------------
(* C4 *)

\* C4, as claimed: for every schedule accepted by HourConfig::new (here: with
\* its boundaries in [0,1), as the data model has them), exactly one of the
\* three rotation predicates holds.
C4_ExactlyOneRotation ==
    hours.tag = "Ok" /\ InRange(hours.value) =>
        RotationCount(hours.value.day_start, hours.value.dusk_start,
                      hours.value.night_start) = 1

\* C4, amended: for every schedule accepted by HourConfig::new, at least one
\* of the three rotation predicates holds, and exactly one holds unless
\* day_start = dusk_start = night_start; then all three hold, the classifier
\* takes its first branch (rotation (a)) and the phase is Night at any time.
C4_OneRotationUnlessAllEqual ==
    hours.tag = "Ok" =>
        LET d == hours.value.day_start
            u == hours.value.dusk_start
            n == hours.value.night_start
        IN  IF d = u /\ u = n
            THEN /\ RotationCount(d, u, n) = 3
                 /\ phase # None => phase = Night
            ELSE RotationCount(d, u, n) = 1

\* A schedule with three equal boundaries was accepted.
C4_Witness ==
    /\ hours.tag = "Ok"
    /\ hours_args # None
    /\ InRange(hours.value)
    /\ phase = Night
    /\ hours.value.day_start = hours.value.dusk_start
    /\ hours.value.dusk_start = hours.value.night_start

----------------------------------------------------------------------------
(* C5 *)

\* C5: for every valid schedule with its three boundaries in [0,1) and every
\* current_hour in [0,1), whenever DayPhase::from_current_hour returns
\* Dusk(progress), 0 <= progress < 1; in all three rotations, the two
\* formulas of rotation (b) across midnight included.
C5_DuskProgressInUnit ==
    phase # None /\ phase.tag = "Dusk" /\ InRange(hours.value) =>
        FLe(Zero, phase.scale) /\ FLt(phase.scale, One)

\* C5, what holds of such a schedule: 0 <= progress <= 1, and the progress
\* is 1 only in the dusk after midnight of rotation (b), at a current_hour
\* below night_start for which 1.0 + current_hour is 1.0 + night_start.
C5_DuskProgressInClosedUnit ==
    phase # None /\ phase.tag = "Dusk" /\ InRange(hours.value) =>
        /\ FLe(Zero, phase.scale)
        /\ FLe(phase.scale, One)
        /\ FEq(phase.scale, One) =>
            /\ ~RotationA(hours.value.day_start, hours.value.dusk_start,
                          hours.value.night_start)
            /\ FLt(current_hour, hours.value.night_start)
            /\ FAdd(One, current_hour) = FAdd(One, hours.value.night_start)

\* A time after midnight was classified as dusk by a schedule of rotation
\* (b), whose dusk started before midnight.
C5_Witness ==
    /\ hours.tag = "Ok"
    /\ InRange(hours.value)
    /\ phase # None
    /\ phase.tag = "Dusk"
    /\ ~RotationA(hours.value.day_start, hours.value.dusk_start,
                  hours.value.night_start)
    /\ RotationB(hours.value.day_start, hours.value.dusk_start,
                 hours.value.night_start)
    /\ FLt(current_hour, hours.value.night_start)
    /\ FLt(Zero, phase.scale)

----------------------------------------------------------------------------
(* C6 *)

\* C6: for every valid Config (a schedule with its boundaries in [0,1) and
\* three ChannelConfig with min <= max) and every current_hour in [0,1), each
\* component i of gamma_function(config)(current_hour) satisfies
\* channels[i].min <= value <= channels[i].max.
C6_GammaWithinBounds ==
    gamma # None /\ InRange(hours.value) =>
        /\ gamma # Panic
        /\ \A i \in 1..3 :
            /\ FLe(channels[i].min, gamma[i])
            /\ FLe(gamma[i], channels[i].max)

\* C6, what holds of such a Config: each component is at least its min and
\* at most the f64 next above its max, and it is above its max only where
\* the phase is a Dusk.
C6_GammaWithinRoundedBounds ==
    gamma # None /\ InRange(hours.value) =>
        /\ gamma # Panic
        /\ \A i \in 1..3 :
            /\ FLe(channels[i].min, gamma[i])
            /\ FLe(gamma[i], NextUp(channels[i].max))
            /\ FLt(channels[i].max, gamma[i])
                => from_current_hour(hours.value, current_hour).tag = "Dusk"

\* A gamma vector was computed during dusk, with a channel strictly between
\* its bounds.
C6_Witness ==
    /\ gamma # None
    /\ gamma # Panic
    /\ InRange(hours.value)
    /\ from_current_hour(hours.value, current_hour).tag = "Dusk"
    /\ \E i \in 1..3 :
        /\ FLt(channels[i].min, gamma[i])
        /\ FLt(gamma[i], channels[i].max)

----------------------------------------------------------------------------
(* C7 *)

\* C7: linear_channel_function(bounds, schedule)(t) is bounds.max when t is
\* classified Day, bounds.min when t is classified Night, and
\* bounds.min + (bounds.max - bounds.min) * (1 - progress) when t is
\* classified Dusk(progress), for every valid bounds, schedule and t.
C7_LinearChannelFunction ==
    channel_value # None =>
        LET p == from_current_hour(hours.value, current_hour)
            lo == channels[1].min
            hi == channels[1].max
        IN  /\ p.tag \in {"Day", "Dusk", "Night"}
            /\ p.tag = "Day" => channel_value = hi
            /\ p.tag = "Night" => channel_value = lo
            /\ p.tag = "Dusk" =>
                channel_value
                    = FAdd(lo, FMul(FSub(hi, lo), FSub(One, p.scale)))

\* A channel with min < max was evaluated during dusk, past its start.
C7_Witness ==
    /\ channel_value # None
    /\ FLt(channels[1].min, channels[1].max)
    /\ FLt(Zero, channels[1].min)
    /\ from_current_hour(hours.value, current_hour).tag = "Dusk"
    /\ FLt(Zero, from_current_hour(hours.value, current_hour).scale)
    /\ FLt(channels[1].min, channel_value)
    /\ FLt(channel_value, channels[1].max)

----------------------------------------------------------------------------
(* C8, C9, C10: the classifier, rotation by rotation *)

\* lo <= t < hi
Within(t, lo, hi) == FLe(lo, t) /\ FLt(t, hi)

\* The schedule classified and the time it was classified at.
Classified == hours.tag = "Ok" /\ phase # None

\* C8: for a schedule in rotation (a) (day_start <= dusk_start <=
\* night_start) and any current_hour t in [0,1): the phase is Day iff
\* day_start <= t < dusk_start; it is
\* Dusk((t - dusk_start) / (night_start - dusk_start)) iff
\* dusk_start <= t < night_start; and Night otherwise (both for
\* t < day_start and for t >= night_start).
C8_RotationA ==
    Classified =>
        LET d == hours.value.day_start
            u == hours.value.dusk_start
            n == hours.value.night_start
            t == current_hour
        IN  RotationA(d, u, n) =>
            /\ phase = Day <=> Within(t, d, u)
            /\ phase = Dusk(FDiv(FSub(t, u), FSub(n, u))) <=> Within(t, u, n)
            /\ phase = Night <=> ~Within(t, d, u) /\ ~Within(t, u, n)
            /\ FLt(t, d) \/ FGe(t, n) => phase = Night

\* A schedule of rotation (a) with a dusk window classified the first instant
\* of its dusk.
C8_Witness ==
    /\ Classified
    /\ hours_args # None
    /\ FLt(hours.value.day_start, hours.value.dusk_start)
    /\ FLt(hours.value.dusk_start, hours.value.night_start)
    /\ current_hour = hours.value.dusk_start
    /\ phase = Dusk(Zero)

\* The schedule of the test chaotic_day_phae_order: day 10h, dusk 19h,
\* night 1h.
ChaoticHours == HourConfig(Rat(10, 24), Rat(19, 24), Rat(1, 24))

\* The phases of the wrap-around scenario and of the test
\* chaotic_day_phae_order: Dusk at midnight, Night at 1.1 h and at 5 h, Day
\* at 11 h.
C9_ExamplePhases ==
    /\ HourConfig_new(Rat(10, 24), Rat(19, 24), Rat(1, 24))
            = Ok(ChaoticHours)
    /\ from_current_hour(ChaoticHours, Zero).tag = "Dusk"
    /\ from_current_hour(ChaoticHours, FDiv(Rat(11, 10), IntF64(24))) = Night
    /\ from_current_hour(ChaoticHours, Rat(5, 24)) = Night
    /\ from_current_hour(ChaoticHours, Rat(11, 24)) = Day

\* The classification of a schedule of rotation (b) alone, as hour.rs
\* computes it.
C9_Intervals ==
    Classified =>
        LET d == hours.value.day_start
            u == hours.value.dusk_start
            n == hours.value.night_start
            t == current_hour
            len == FSub(FAdd(One, n), u)
        IN  RotationB(d, u, n) /\ ~RotationA(d, u, n) =>
            /\ phase = Day <=> Within(t, d, u)
            /\ FGe(t, u) => phase = Dusk(FDiv(FSub(t, u), len))
            /\ FLt(t, n) => phase = Dusk(FDiv(FSub(FAdd(One, t), u), len))
            /\ phase.tag = "Dusk" <=> FGe(t, u) \/ FLt(t, n)
            /\ phase = Night <=> Within(t, n, d)

\* C9: for a schedule in rotation (b) (night_start <= day_start <=
\* dusk_start, and not in rotation (a)) and any t in [0,1): the phase is Day
\* iff day_start <= t < dusk_start; it is
\* Dusk((t - dusk_start) / (1 + night_start - dusk_start)) iff
\* t >= dusk_start; it is
\* Dusk((1 + t - dusk_start) / (1 + night_start - dusk_start)) iff
\* t < night_start; and Night iff night_start <= t < day_start.  For
\* (10/24, 19/24, 1/24): t = 0 is Dusk(5/6), t = 1.1/24 and t = 5/24 are
\* Night, t = 11/24 is Day.  (The two Dusk cases are told apart by their
\* conditions and not by their values: outside of [0,1), with night_start =
\* dusk_start - 1, the two quotients are the same infinity.  The example is
\* a fact of the function, stated before any call.)
C9_RotationB ==
    /\ C9_Intervals
    /\ hours = None =>
        /\ C9_ExamplePhases
        /\ from_current_hour(ChaoticHours, Zero) = Dusk(Rat(5, 6))

\* C9, with the progress of the example as the f64 operations give it: for
\* (10/24, 19/24, 1/24), t = 0 is Dusk(p) where p is 5/6 to within
\* Tolerance and is not the f64 nearest to 5/6 (it is 0.8333333333333331).
C9_RotationBRounded ==
    /\ C9_Intervals
    /\ hours = None =>
        /\ C9_ExamplePhases
        /\ Near(from_current_hour(ChaoticHours, Zero).scale, Rat(5, 6))
        /\ FLt(from_current_hour(ChaoticHours, Zero).scale, Rat(5, 6))

\* A schedule of rotation (b) alone classified its night_start, after
\* midnight, as Night.
C9_Witness ==
    /\ Classified
    /\ RotationB(hours.value.day_start, hours.value.dusk_start,
                 hours.value.night_start)
    /\ ~RotationA(hours.value.day_start, hours.value.dusk_start,
                  hours.value.night_start)
    /\ FLt(hours.value.night_start, hours.value.day_start)
    /\ current_hour = hours.value.night_start
    /\ phase = Night

\* C10: for a schedule in rotation (c) (dusk_start <= night_start <=
\* day_start, and in neither rotation (a) nor (b)) and any t in [0,1): the
\* phase is Day iff t >= day_start or t < dusk_start (the day wraps across
\* midnight); it is Dusk((t - dusk_start) / (night_start - dusk_start)) iff
\* dusk_start <= t < night_start; and Night iff night_start <= t < day_start.
C10_RotationC ==
    Classified =>
        LET d == hours.value.day_start
            u == hours.value.dusk_start
            n == hours.value.night_start
            t == current_hour
        IN  RotationC(d, u, n) /\ ~RotationA(d, u, n) /\ ~RotationB(d, u, n)
            =>
            /\ phase = Day <=> FGe(t, d) \/ FLt(t, u)
            /\ phase = Dusk(FDiv(FSub(t, u), FSub(n, u))) <=> Within(t, u, n)
            /\ phase = Night <=> Within(t, n, d)

\* A schedule of rotation (c) alone classified a time after midnight and
\* before its dusk as Day.
C10_Witness ==
    /\ Classified
    /\ RotationC(hours.value.day_start, hours.value.dusk_start,
                 hours.value.night_start)
    /\ ~RotationA(hours.value.day_start, hours.value.dusk_start,
                  hours.value.night_start)
    /\ ~RotationB(hours.value.day_start, hours.value.dusk_start,
                  hours.value.night_start)
    /\ FLt(current_hour, hours.value.dusk_start)
    /\ phase = Day

----------------------------------------------------------------------------
(* C11 *)

\* One channel evaluated at a time of day, under a schedule the constructor
\* accepted.
Evaluated ==
    /\ hours.tag = "Ok"
    /\ channel_value # None

\* C11 as stated: for every valid schedule and valid bounds, the channel
\* value computed at current_hour = dusk_start is the maximum of the channel.
C11_MaxAtDuskStart ==
    Evaluated /\ FEq(current_hour, hours.value.dusk_start)
        => FEq(channel_value, channels[1].max)

\* C11: for every valid schedule with its boundaries in [0,1) and valid
\* bounds 0 <= min <= max, at current_hour = dusk_start: when dusk_start #
\* night_start the time is Dusk(0) and the channel value is
\* min + (max - min) * 1.0 as the f64 operations compute it, which is the
\* maximum of the channel or one of the two f64 next to it; when
\* dusk_start = night_start the dusk is empty, the time is already Night and
\* the value is the minimum of the channel.
C11_MaxAtDuskStartUnlessEmptyDusk ==
    Evaluated /\ InRange(hours.value)
    /\ FEq(current_hour, hours.value.dusk_start)
        => /\ ~FEq(hours.value.dusk_start, hours.value.night_start)
                => /\ from_current_hour(hours.value, current_hour).tag = "Dusk"
                   /\ FEq(from_current_hour(hours.value, current_hour).scale, Zero)
                   /\ channel_value
                        = FAdd(channels[1].min,
                               FMul(FSub(channels[1].max, channels[1].min), One))
                   /\ Adjacent(channel_value, channels[1].max)
           /\ FEq(hours.value.dusk_start, hours.value.night_start)
                => /\ from_current_hour(hours.value, current_hour) = Night
                   /\ channel_value = channels[1].min

\* The channel of decimal bounds evaluated at the start of a dusk that is
\* not empty: its value is the f64 next above its maximum.
C11_Witness ==
    /\ Evaluated
    /\ InRange(hours.value)
    /\ current_hour = hours.value.dusk_start
    /\ hours.value.dusk_start # hours.value.night_start
    /\ FLt(channels[1].min, channels[1].max)
    /\ channel_value = NextUp(channels[1].max)

----------------------------------------------------------------------------
(* C12 *)

\* The result is a Dusk whose progress is not a number or not finite: a
\* quotient was evaluated with a denominator of zero.
DividedByZero(p) == p.tag = "Dusk" /\ p.scale.kind # "finite"

\* C12: for every valid schedule with dusk_start = night_start and every t
\* in [0,1), from_current_hour returns Day or Night only, never Dusk, so it
\* evaluates no progress quotient (and none with a denominator of zero); the
\* phase changes from Day to Night at dusk_start = night_start: the time
\* dusk_start itself is Night, and a time is Day exactly when it is in the
\* cyclic interval [day_start, dusk_start).
C12_EmptyDuskNeverDusk ==
    Classified =>
        LET d == hours.value.day_start
            u == hours.value.dusk_start
            n == hours.value.night_start
            t == current_hour
        IN  u = n
            =>
            /\ phase \in {Day, Night}
            /\ phase.tag # "Dusk"
            /\ ~DividedByZero(phase)
            /\ t = u => phase = Night
            /\ phase = Day <=>
                    IF FLe(d, u) THEN Within(t, d, u)
                    ELSE FGe(t, d) \/ FLt(t, u)

\* A schedule with an empty dusk and a day that is not empty, classified at
\* dusk_start = night_start, is Night.
C12_Witness ==
    /\ Classified
    /\ hours.value.dusk_start = hours.value.night_start
    /\ hours.value.day_start # hours.value.dusk_start
    /\ current_hour = hours.value.dusk_start
    /\ phase = Night

----------------------------------------------------------------------------
(* C13 *)

\* The curve of one channel at a phase, as the specification states it: max
\* by day, min by night, min + (max - min) * (1 - progress) at dusk.
Curve(channel_config, p) ==
    CASE p.tag = "Day" -> channel_config.max
      [] p.tag = "Night" -> channel_config.min
      [] p.tag = "Dusk" ->
            FAdd(channel_config.min,
                 FMul(FSub(channel_config.max, channel_config.min),
                      FSub(One, p.scale)))

\* C13: gamma_function(config)(t) is the vector of the curves of
\* config.channels[0], [1], [2] (red, green, blue, in this order), all three
\* taken at the one phase from_current_hour(config.hours, t).
C13_GammaIsCurvePerChannel ==
    hours.tag = "Ok" /\ gamma # None =>
        LET p == from_current_hour(hours.value, current_hour)
        IN  gamma = <<Curve(channels[1], p), Curve(channels[2], p),
                      Curve(channels[3], p)>>

\* A gamma computed at dusk, strictly inside the window, for three channels
\* with different bounds: its three components differ.
C13_Witness ==
    /\ hours.tag = "Ok"
    /\ gamma # None
    /\ from_current_hour(hours.value, current_hour).tag = "Dusk"
    /\ gamma[1] # gamma[2]
    /\ gamma[2] # gamma[3]
    /\ gamma[1] # gamma[3]

----------------------------------------------------------------------------
(* C14 *)

\* C14 as stated: the classifier of hour.rs takes every interval half-open,
\* [start, end), in all three rotations: for every valid schedule,
\* t = day_start is Day whenever day_start # dusk_start, t = dusk_start is
\* Dusk(0) whenever dusk_start # night_start, and t = night_start is Night
\* whenever night_start # day_start.
C14_HalfOpenIntervals ==
    Classified =>
        LET d == hours.value.day_start
            u == hours.value.dusk_start
            n == hours.value.night_start
            t == current_hour
        IN  /\ FEq(t, d) /\ ~FEq(d, u) => phase = Day
            /\ FEq(t, u) /\ ~FEq(u, n)
                => phase.tag = "Dusk" /\ FEq(phase.scale, Zero)
            /\ FEq(t, n) /\ ~FEq(n, d) => phase = Night

\* C14: the same for every valid schedule whose three boundaries are in
\* [0,1): t = day_start is Day whenever day_start # dusk_start,
\* t = dusk_start is Dusk(0) whenever dusk_start # night_start, and
\* t = night_start is Night whenever night_start # day_start.
C14_HalfOpenIntervalsInRange ==
    Classified /\ InRange(hours.value) =>
        LET d == hours.value.day_start
            u == hours.value.dusk_start
            n == hours.value.night_start
            t == current_hour
        IN  /\ FEq(t, d) /\ ~FEq(d, u) => phase = Day
            /\ FEq(t, u) /\ ~FEq(u, n)
                => phase.tag = "Dusk" /\ FEq(phase.scale, Zero)
            /\ FEq(t, n) /\ ~FEq(n, d) => phase = Night

\* A schedule of rotation (c) alone, with a dusk that is not empty,
\* classified at dusk_start: Dusk(0), not Day.
C14_Witness ==
    /\ Classified
    /\ InRange(hours.value)
    /\ RotationC(hours.value.day_start, hours.value.dusk_start,
                 hours.value.night_start)
    /\ ~RotationA(hours.value.day_start, hours.value.dusk_start,
                  hours.value.night_start)
    /\ hours.value.dusk_start # hours.value.night_start
    /\ current_hour = hours.value.dusk_start
    /\ phase = Dusk(Zero)

----------------------------------------------------------------------------
(* C15 *)

\* The configuration in the state is the one Config::default() built.
DefaultConfigBuilt ==
    /\ hours_args = None
    /\ hours.tag = "Ok"
    /\ channel = None
    /\ Len(channels) = 3

\* C15: Config::default() has the schedule day 5/24, dusk 17/24, night 21/24
\* and the bounds red (1.0, 1.0), green (0.65, 1.0), blue (0.45, 1.0), and
\* with it gamma_function yields [1.0, 1.0, 1.0] at t = 12/24,
\* [1.0, 0.825, 0.725] at t = 19/24 (Dusk with progress 1/2) and
\* [1.0, 0.65, 0.45] at t = 23/24.
C15_DefaultGamma ==
    DefaultConfigBuilt =>
        /\ hours.value = HourConfig(Rat(5, 24), Rat(17, 24), Rat(21, 24))
        /\ channels = <<ChannelConfig(One, One),
                        ChannelConfig(Rat(65, 100), One),
                        ChannelConfig(Rat(45, 100), One)>>
        /\ gamma # None =>
            /\ current_hour = Rat(12, 24) => gamma = <<One, One, One>>
            /\ current_hour = Rat(19, 24) =>
                /\ from_current_hour(hours.value, current_hour)
                        = Dusk(Rat(1, 2))
                /\ gamma = <<One, Rat(825, 1000), Rat(725, 1000)>>
            /\ current_hour = Rat(23, 24) =>
                gamma = <<One, Rat(65, 100), Rat(45, 100)>>

\* C15, with the values of the dusk as the f64 operations give them: at
\* t = 19/24 the phase is Dusk with a progress within Tolerance of 1/2 and
\* below it, red is 1.0, and green and blue are within Tolerance of 0.825
\* and 0.725 and above them; the values at 12/24 and 23/24 are exact.
C15_DefaultGammaRounded ==
    DefaultConfigBuilt =>
        /\ hours.value = HourConfig(Rat(5, 24), Rat(17, 24), Rat(21, 24))
        /\ channels = <<ChannelConfig(One, One),
                        ChannelConfig(Rat(65, 100), One),
                        ChannelConfig(Rat(45, 100), One)>>
        /\ gamma # None =>
            /\ current_hour = Rat(12, 24) => gamma = <<One, One, One>>
            /\ current_hour = Rat(19, 24) =>
                /\ from_current_hour(hours.value, current_hour).tag = "Dusk"
                /\ Near(from_current_hour(hours.value, current_hour).scale,
                        Rat(1, 2))
                /\ FLt(from_current_hour(hours.value, current_hour).scale,
                       Rat(1, 2))
                /\ gamma[1] = One
                /\ Near(gamma[2], Rat(825, 1000))
                /\ FLt(Rat(825, 1000), gamma[2])
                /\ Near(gamma[3], Rat(725, 1000))
                /\ FLt(Rat(725, 1000), gamma[3])
            /\ current_hour = Rat(23, 24) =>
                gamma = <<One, Rat(65, 100), Rat(45, 100)>>

\* The gamma of Config::default() computed at 19 h, in the middle of the
\* dusk.
C15_Witness ==
    /\ DefaultConfigBuilt
    /\ gamma # None
    /\ current_hour = Rat(19, 24)
    /\ Near(gamma[2], Rat(825, 1000))

----------------------------------------------------------------------------
(* C16 *)

\* One of the three rotations holds of the schedule hc.
CyclicOrder(hc) ==
    \/ RotationA(hc.day_start, hc.dusk_start, hc.night_start)
    \/ RotationB(hc.day_start, hc.dusk_start, hc.night_start)
    \/ RotationC(hc.day_start, hc.dusk_start, hc.night_start)

\* The triple a with_* call asks for: self with the named field replaced by
\* the argument.
Replaced(call) ==
    CASE call.fn = "with_day_start" -> [call.self EXCEPT !.day_start = call.arg]
      [] call.fn = "with_dusk_start" ->
            [call.self EXCEPT !.dusk_start = call.arg]
      [] call.fn = "with_night_start" ->
            [call.self EXCEPT !.night_start = call.arg]

\* C16: from HourConfig::default() and through any sequence of
\* with_day_start / with_dusk_start / with_night_start calls of lib.rs,
\* every call that returns yields the replaced triple and that triple is in
\* one of the three rotations; every call whose replaced triple is in none
\* of them panics and produces no instance; so every HourConfig that exists
\* is in one of the rotations and the classifier of lib.rs never reaches its
\* panic branch on it.
C16_BuildersKeepCyclicOrder ==
    /\ CyclicOrder(lib_hours)
    /\ lib_phase # Panic
    /\ lib_hours_call # None =>
        /\ lib_hours_result # Panic =>
            /\ lib_hours_result = Replaced(lib_hours_call)
            /\ CyclicOrder(lib_hours_result)
            /\ lib_hours = lib_hours_result
        /\ ~CyclicOrder(Replaced(lib_hours_call)) =>
            /\ lib_hours_result = Panic
            /\ lib_hours = lib_hours_call.self

\* A schedule built by with_* calls, no field of which is a default any
\* more and which is in rotation (b) alone, was classified.
C16_Witness ==
    /\ lib_hours_call # None
    /\ lib_hours_result # Panic
    /\ lib_hours.day_start # lib_HourConfig_default.day_start
    /\ lib_hours.dusk_start # lib_HourConfig_default.dusk_start
    /\ lib_hours.night_start # lib_HourConfig_default.night_start
    /\ ~RotationA(lib_hours.day_start, lib_hours.dusk_start,
                  lib_hours.night_start)
    /\ RotationB(lib_hours.day_start, lib_hours.dusk_start,
                 lib_hours.night_start)
    /\ lib_phase \in {Day, Night}

----------------------------------------------------------------------------
(* C17 *)

\* C17: from ChannelConfig::default() (min = 0, max = 1) and through any
\* sequence of with_min / with_max calls of lib.rs, every ChannelConfig
\* returned has min <= max, its field that the call does not name is the one
\* of self (and the named one is the argument), and a call that would make
\* min > max panics instead of returning an instance.
C17_BuildersKeepBounds ==
    /\ FLe(lib_channel.min, lib_channel.max)
    /\ lib_channel_call # None =>
        LET self == lib_channel_call.self
            arg == lib_channel_call.arg
        IN  /\ lib_channel_result # Panic =>
                /\ FLe(lib_channel_result.min, lib_channel_result.max)
                /\ lib_channel = lib_channel_result
                /\ lib_channel_call.fn = "with_min" =>
                    /\ lib_channel_result.max = self.max
                    /\ lib_channel_result.min = arg
                /\ lib_channel_call.fn = "with_max" =>
                    /\ lib_channel_result.min = self.min
                    /\ lib_channel_result.max = arg
            /\ lib_channel_call.fn = "with_min" /\ FLt(self.max, arg) =>
                lib_channel_result = Panic
            /\ lib_channel_call.fn = "with_max" /\ FLt(arg, self.min) =>
                lib_channel_result = Panic

\* with_min is called with a minimum above the maximum of an instance that
\* with_* calls have built, and panics.
C17_Witness ==
    /\ lib_channel_call # None
    /\ lib_channel_call.fn = "with_min"
    /\ lib_channel_call.self # ChannelConfig_default
    /\ FLt(lib_channel_call.self.max, lib_channel_call.arg)
    /\ lib_channel_result = Panic

----------------------------------------------------------------------------
(* C18 *)

\* a <= b for two finite numbers
LeFinite(a, b) == FLe(a, b)

\* The time of day a is not later than b.
NotLater(a, b) ==
    \/ a.num_seconds_from_midnight < b.num_seconds_from_midnight
    \/ /\ a.num_seconds_from_midnight = b.num_seconds_from_midnight
       /\ a.nanosecond <= b.nanosecond

\* C18 as stated: timelike_to_hours maps every Timelike value (a second of
\* the day in 0..86399 with any value its nanosecond field may take) to a
\* number in [0,1), maps midnight (0 s, 0 ns) to exactly 0, and is monotonic
\* non-decreasing in the time of day.
C18_TimelikeToHoursInUnit ==
    \A i \in 1..Len(timelikes) :
        /\ InUnit(day_hours[i])
        /\ timelikes[i] = Timelike(0, 0) => day_hours[i] = Zero
        /\ \A j \in 1..Len(timelikes) :
            NotLater(timelikes[i], timelikes[j])
                => LeFinite(day_hours[i], day_hours[j])

\* The same restricted to times that are not in a leap second, where it
\* holds: the sub-second part is below one second.
C18_InUnitOutsideLeapSeconds ==
    \A i \in 1..Len(timelikes) :
        timelikes[i].nanosecond < 1000000000 =>
            /\ InUnit(day_hours[i])
            /\ timelikes[i] = Timelike(0, 0) => day_hours[i] = Zero
            /\ \A j \in 1..Len(timelikes) :
                /\ timelikes[j].nanosecond < 1000000000
                /\ NotLater(timelikes[i], timelikes[j])
                => LeFinite(day_hours[i], day_hours[j])

----------------------------------------------------------------------------
(* C19 *)

\* C19 as stated: across the dusk window the channel value does not
\* increase with the cyclic time elapsed since dusk_start, and decreases
\* strictly when min < max: for every valid schedule and any two times t1,
\* t2 both classified Dusk, t1 earlier than t2 in cyclic order from
\* dusk_start (t1 before midnight and t2 after it included),
\* value(t1) >= value(t2) >= min.
C19_NonIncreasingAcrossDusk ==
    Evaluated =>
        LET hc == hours.value
            cc == channels[1]
            t1 == current_hour
        IN  from_current_hour(hc, t1).tag = "Dusk" =>
                \A t2 \in TimeInputs :
                    /\ from_current_hour(hc, t2).tag = "Dusk"
                    /\ CycLt(hc.dusk_start, t1, t2)
                    => \A v2 \in {linear_channel_function(cc, hc, t2)} :
                           /\ FGe(channel_value, v2)
                           /\ FGe(v2, cc.min)
                           /\ FLt(cc.min, cc.max) => FLt(v2, channel_value)

\* C19: for every valid schedule whose three boundaries are in [0,1) and
\* any two times t1, t2 both classified Dusk, t1 earlier than t2 in cyclic
\* order from dusk_start (t1 before midnight and t2 after it included),
\* value(t1) >= value(t2) >= min: the channel value does not increase
\* across the dusk.  (It need not decrease when min < max: two times one
\* f64 apart can have the same value.)
C19_NonIncreasingInRange ==
    Evaluated /\ InRange(hours.value) =>
        LET hc == hours.value
            cc == channels[1]
            t1 == current_hour
        IN  from_current_hour(hc, t1).tag = "Dusk" =>
                \A t2 \in TimeInputs :
                    /\ from_current_hour(hc, t2).tag = "Dusk"
                    /\ CycLt(hc.dusk_start, t1, t2)
                    => \A v2 \in {linear_channel_function(cc, hc, t2)} :
                           /\ FGe(channel_value, v2)
                           /\ FGe(v2, cc.min)

\* A dusk across midnight: a channel with min < max evaluated before
\* midnight, and a later time of the same dusk after midnight where the
\* value is lower.
C19_Witness ==
    /\ Evaluated
    /\ InRange(hours.value)
    /\ from_current_hour(hours.value, current_hour).tag = "Dusk"
    /\ FGe(current_hour, hours.value.dusk_start)
    /\ FLt(channels[1].min, channels[1].max)
    /\ \E t2 \in TimeInputs :
        /\ FLt(t2, hours.value.night_start)
        /\ FLt(t2, current_hour)
        /\ CycLt(hours.value.dusk_start, current_hour, t2)
        /\ from_current_hour(hours.value, t2).tag = "Dusk"
        /\ FLt(linear_channel_function(channels[1], hours.value, t2),
               channel_value)

----------------------------------------------------------------------------
(* C20 *)

\* with_os_graphical_env has dispatched on what XorgEnv::load() returned.
DispatchedOnEnv ==
    /\ cli_env.tag = "Some" <=> cli_method = "with_graphical_env"
    /\ cli_env = None <=> cli_method = "without_graphical_env"

\* Serve and Apply without an environment: the Unsupported error, and no
\* call of the environment.
UnsupportedWithoutEnv ==
    cli_program.subcommand \in {"Serve", "Apply"} =>
        /\ cli_pc = "returned"
        /\ cli_result.tag = "Err"
        /\ cli_result.error.kind = "Unsupported"
        /\ cli_calls = {}

\* C20 as stated: with_os_graphical_env runs the context with the
\* environment when XorgEnv::load returns Some and otherwise calls
\* without_graphical_env; then Serve and Apply return an io::Error of kind
\* Unsupported without a call of list_monitors or apply_gamma, while Print
\* computes the gamma and returns Ok.
C20_PrintAlwaysOkWithoutEnv ==
    cli_program # None =>
        /\ DispatchedOnEnv
        /\ cli_method = "without_graphical_env" =>
            /\ UnsupportedWithoutEnv
            /\ cli_program.subcommand = "Print" =>
                /\ cli_gamma # None
                /\ cli_result = Ok(<<>>)

\* C20: with_os_graphical_env runs the context with the environment when
\* XorgEnv::load returns Some and otherwise calls without_graphical_env;
\* then Serve and Apply return an io::Error of kind Unsupported without a
\* call of list_monitors or apply_gamma, while Print validates its
\* configuration and, when it is valid, computes the gamma, prints it and
\* returns Ok; when it is not, Print returns an io::Error of kind
\* InvalidInput and computes no gamma.  Print calls the environment in
\* neither case.
C20_PrintOkWithoutEnvWhenValid ==
    cli_program # None =>
        /\ DispatchedOnEnv
        /\ cli_method = "without_graphical_env" =>
            /\ UnsupportedWithoutEnv
            /\ cli_program.subcommand = "Print" =>
                /\ cli_pc = "returned"
                /\ cli_calls = {}
                /\ cli_config = create_config(cli_program.config_args)
                /\ cli_config.tag = "Ok" =>
                    /\ cli_gamma # None
                    /\ cli_gamma \in
                        {create_color_channels(cli_config.value,
                                               cli_program.time, now) :
                            now \in TimeClocks}
                    /\ cli_stdout = [format |-> "plain", gamma |-> cli_gamma]
                    /\ cli_result = Ok(<<>>)
                /\ cli_config.tag = "Err" =>
                    /\ cli_gamma = None
                    /\ cli_stdout = None
                    /\ cli_result.tag = "Err"
                    /\ cli_result.error.kind = "InvalidInput"

\* Print ran without an environment, with a valid configuration and
\* --time 19:00 in the dusk, and returned Ok with a gamma below the maxima.
C20_Witness ==
    /\ cli_program # None
    /\ cli_method = "without_graphical_env"
    /\ cli_program.subcommand = "Print"
    /\ cli_program.time = Some(Timelike(19 * 3600, 0))
    /\ cli_result = Ok(<<>>)
    /\ cli_gamma # None
    /\ FLt(cli_gamma[2], One)

----------------------------------------------------------------------------
(* C21 *)

\* The io::Error create_config returns for these arguments: the schedule
\* is reported before the channels, and the channels in the order red,
\* green, blue.
FirstInvalid(args) ==
    LET day == timelike_to_hours(args.day_start)
        dusk == timelike_to_hours(args.dusk_start)
        night == timelike_to_hours(args.night_start)
    IN  IF HourConfig_new(day, dusk, night).tag = "Err"
        THEN InvalidDayPhases(day, dusk, night)
        ELSE IF ~FLe(args.min_red, args.max_red)
        THEN InvalidChannelBounds(args.min_red, args.max_red)
        ELSE IF ~FLe(args.min_green, args.max_green)
        THEN InvalidChannelBounds(args.min_green, args.max_green)
        ELSE InvalidChannelBounds(args.min_blue, args.max_blue)

\* C21: Serve, Apply and Print validate the configuration before any call
\* of the graphical environment.  When the validation fails the command has
\* returned an io::Error of kind InvalidInput that carries the first
\* invalid part (the schedule, then the bounds of red, green, blue), and no
\* list_monitors, format_gamma or apply_gamma call has been made; a call
\* of the environment is only made with a valid configuration; and
\* create_config is called at most once in a run, however many rounds the
\* Serve loop makes.
C21_ValidationBeforeEnvironment ==
    /\ cli_validations <= 1
    /\ cli_calls # {} => cli_validations = 1 /\ cli_config.tag = "Ok"
    /\ cli_pc \in {"list_monitors", "apply_gamma", "format_gamma", "sleep"}
        => cli_validations = 1 /\ cli_config.tag = "Ok"
    /\ cli_validations = 1 =>
        cli_config = create_config(cli_program.config_args)
    /\ cli_config.tag = "Err" =>
        /\ cli_pc = "returned"
        /\ cli_calls = {}
        /\ cli_rounds = 0
        /\ cli_result = Err(IoError("InvalidInput",
                                    FirstInvalid(cli_program.config_args)))

\* Serve ran with an environment and bounds of green and blue that are both
\* invalid: it returned the InvalidInput error of green without a call.
C21_Witness ==
    /\ cli_program # None
    /\ cli_program.subcommand = "Serve"
    /\ cli_method = "with_graphical_env"
    /\ cli_validations = 1
    /\ cli_program.config_args.max_red = One
    /\ cli_program.config_args.max_green = Rat(1, 2)
    /\ cli_program.config_args.max_blue = Rat(2, 10)
    /\ cli_result = Err(IoError("InvalidInput",
                                InvalidChannelBounds(Rat(6, 10), Rat(1, 2))))
    /\ cli_calls = {}

----------------------------------------------------------------------------
(* C22 *)

\* C22 as stated: the classifier of hour.rs does not depend on the
\* rotation: for every valid schedule and t in [0,1), with
\* cyc(x,y) = (y - x) mod 1, the phase is Day iff cyc(day_start,t) <
\* cyc(day_start,dusk_start); otherwise it is
\* Dusk(cyc(dusk_start,t)/cyc(dusk_start,night_start)) iff
\* cyc(dusk_start,t) < cyc(dusk_start,night_start); otherwise it is Night.
\* Night is the cyclic interval [night_start, day_start) unless the three
\* boundaries are equal, and then the phase is Night at every time.  The
\* cyclic distances are compared as real numbers, and the progress is the
\* quotient up to the rounding of the f64 operations.
C22_RotationIndependent ==
    Classified =>
        LET d == hours.value.day_start
            u == hours.value.dusk_start
            n == hours.value.night_start
            t == current_hour
            isDay == CycLt(d, t, u)
            isDusk == ~isDay /\ CycLt(u, t, n)
        IN  /\ phase = Day <=> isDay
            /\ phase.tag = "Dusk" <=> isDusk
            /\ isDusk =>
                /\ phase.tag = "Dusk"
                /\ Near(phase.scale, FDiv(CycF64(u, t), CycF64(u, n)))
            /\ phase = Night <=> ~isDay /\ ~isDusk
            /\ ~(FEq(d, u) /\ FEq(u, n)) =>
                (phase = Night <=> CycLt(n, t, d))
            /\ FEq(d, u) /\ FEq(u, n) => phase = Night

\* C22: the same for every valid schedule whose three boundaries are in
\* [0,1) and t in [0,1): the phase is Day iff cyc(day_start,t) <
\* cyc(day_start,dusk_start); otherwise it is Dusk(progress) iff
\* cyc(dusk_start,t) < cyc(dusk_start,night_start), the progress being
\* cyc(dusk_start,t)/cyc(dusk_start,night_start) up to the rounding of the
\* f64 operations; otherwise it is Night.  Night is the cyclic interval
\* [night_start, day_start) unless the three boundaries are equal, and then
\* the phase is Night at every time.
C22_RotationIndependentInRange ==
    Classified /\ InRange(hours.value) =>
        LET d == hours.value.day_start
            u == hours.value.dusk_start
            n == hours.value.night_start
            t == current_hour
            isDay == CycLt(d, t, u)
            isDusk == ~isDay /\ CycLt(u, t, n)
        IN  /\ phase = Day <=> isDay
            /\ phase.tag = "Dusk" <=> isDusk
            /\ isDusk =>
                /\ phase.tag = "Dusk"
                /\ Near(phase.scale, FDiv(CycF64(u, t), CycF64(u, n)))
            /\ phase = Night <=> ~isDay /\ ~isDusk
            /\ ~(FEq(d, u) /\ FEq(u, n)) =>
                (phase = Night <=> CycLt(n, t, d))
            /\ FEq(d, u) /\ FEq(u, n) => phase = Night

\* A schedule of rotation (b) alone classified in the dusk after midnight,
\* where the quotient of the code has 1 + t - dusk_start for its numerator.
C22_Witness ==
    /\ Classified
    /\ InRange(hours.value)
    /\ RotationCount(hours.value.day_start, hours.value.dusk_start,
                     hours.value.night_start) = 1
    /\ RotationB(hours.value.day_start, hours.value.dusk_start,
                 hours.value.night_start)
    /\ FLt(current_hour, hours.value.night_start)
    /\ phase.tag = "Dusk"
    /\ Near(phase.scale,
            FDiv(CycF64(hours.value.dusk_start, current_hour),
                 CycF64(hours.value.dusk_start, hours.value.night_start)))
    /\ FLt(Zero, phase.scale)

----------------------------------------------------------------------------
(* C23 *)

\* Both iterations of linear_channel_function were called with the same
\* channel, schedule and time of day.
BothEvaluated ==
    hours.tag = "Ok" /\ channel_value # None /\ lib_channel_value # None

\* C23 as stated: the two iterations of the engine agree on their output.
\* For every valid schedule (in cyclic order) with dusk_start #
\* night_start, every channel with min <= max and every t in [0,1), the
\* linear_channel_function of lib.rs (closed upper edges) and that of
\* channel.rs and hour.rs (half-open intervals) return the same value; at
\* t = dusk_start the phases are Day and Dusk(0), and at t = night_start #
\* day_start they are Dusk(1) and Night.
C23_EnginesAgree ==
    BothEvaluated
    /\ ~FEq(hours.value.dusk_start, hours.value.night_start) =>
        LET hc == hours.value
            t == current_hour
        IN  /\ Same(lib_channel_value, channel_value)
            /\ FEq(t, hc.dusk_start) =>
                /\ lib_from_current_hour(hc, t) = Day
                /\ from_current_hour(hc, t).tag = "Dusk"
                /\ FEq(from_current_hour(hc, t).scale, Zero)
            /\ FEq(t, hc.night_start) /\ ~FEq(hc.night_start, hc.day_start) =>
                /\ lib_from_current_hour(hc, t).tag = "Dusk"
                /\ FEq(lib_from_current_hour(hc, t).scale, One)
                /\ from_current_hour(hc, t) = Night

\* C23: for every valid schedule whose three boundaries are in [0,1), with
\* dusk_start # night_start, every channel with 0 <= min <= max and every t
\* in [0,1): at every t other than dusk_start the two iterations return the
\* same value; at t = dusk_start the phases are Day and Dusk(0), lib.rs
\* returns max and channel.rs returns min + (max - min) * 1.0 as the f64
\* operations compute it, which is max or one of the two f64 next to it;
\* at t = night_start # day_start the phases are Dusk(1) and Night, and
\* both return min.
C23_EnginesAgreeButAtDuskStart ==
    BothEvaluated /\ InRange(hours.value)
    /\ ~FEq(hours.value.dusk_start, hours.value.night_start) =>
        LET hc == hours.value
            cc == channels[1]
            t == current_hour
        IN  /\ ~FEq(t, hc.dusk_start) => lib_channel_value = channel_value
            /\ FEq(t, hc.dusk_start) =>
                /\ lib_from_current_hour(hc, t) = Day
                /\ from_current_hour(hc, t).tag = "Dusk"
                /\ FEq(from_current_hour(hc, t).scale, Zero)
                /\ lib_channel_value = cc.max
                /\ channel_value
                    = FAdd(cc.min, FMul(FSub(cc.max, cc.min), One))
                /\ Adjacent(channel_value, cc.max)
            /\ FEq(t, hc.night_start) /\ ~FEq(hc.night_start, hc.day_start) =>
                /\ lib_from_current_hour(hc, t).tag = "Dusk"
                /\ FEq(lib_from_current_hour(hc, t).scale, One)
                /\ from_current_hour(hc, t) = Night
                /\ lib_channel_value = cc.min
                /\ channel_value = cc.min

\* Both were called at t = dusk_start with the channel of decimal bounds:
\* lib.rs returned its max and channel.rs the f64 next above it.
C23_Witness ==
    /\ BothEvaluated
    /\ InRange(hours.value)
    /\ hours.value.dusk_start # hours.value.night_start
    /\ current_hour = hours.value.dusk_start
    /\ FLt(channels[1].min, channels[1].max)
    /\ lib_channel_value = channels[1].max
    /\ channel_value = NextUp(channels[1].max)

----------------------------------------------------------------------------
(* C24 *)

\* A command of the log failed.
DaemonFailed == \E i \in 1..Len(daemon_log) : ~daemon_log[i].ok

\* What holds in every state of a run of the daemon.
DaemonSafe ==
    /\ daemon_terminate =>
        /\ daemon_flagged # None
        /\ GammaCommands(daemon_log) <= daemon_flagged.applies + 1
        /\ daemon_flagged.tests = 0 => GammaCommands(daemon_log) = 0
    /\ DaemonFailed =>
        /\ ~daemon_log[Len(daemon_log)].ok
        /\ \A i \in 1..(Len(daemon_log) - 1) : daemon_log[i].ok
        /\ daemon_pc = "returned"
        /\ \E kind \in OsErrorKinds :
            daemon_result =
                Err(CommandError(daemon_log[Len(daemon_log)].call, kind))
    /\ daemon_pc = "returned" /\ daemon_tests > 0 /\ ~DaemonFailed =>
        daemon_terminate /\ daemon_result = Ok(<<>>)

\* C24: in DaemonSubCommand::run, once SIGINT or SIGTERM has set the
\* terminate flag, at most one further gamma command is run and the loop
\* then exits, returning Ok when no command failed; if the flag is set
\* before the first test of the loop no gamma command is run at all; and a
\* command of apply that fails ends the run at once with its error.
C24_TerminateEndsLoop ==
    /\ []DaemonSafe
    /\ daemon_terminate ~> daemon_pc = "returned"

\* The flag was set during a round after the loop test, one more gamma
\* command was run, and run returned Ok.
C24_Witness ==
    /\ daemon_terminate
    /\ daemon_flagged.tests > 0
    /\ GammaCommands(daemon_log) = daemon_flagged.applies + 1
    /\ daemon_pc = "returned"
    /\ daemon_result = Ok(<<>>)

----------------------------------------------------------------------------
(* C25 *)

\* Every Time built or computed keeps total_minutes() < 1440.
TimesInRange ==
    /\ \A i \in 1..Len(arith_operands) :
        arith_operands[i].minutes \in 0..(TOTAL_MINUTE_COUNT - 1)
    /\ \A r \in {arith_result, arith_back} :
        r \notin {None, Panic} => r.minutes \in 0..(TOTAL_MINUTE_COUNT - 1)

\* C25: Time arithmetic is cyclic modulo 1440 minutes and keeps
\* total_minutes() < 1440.  For all Time values a and b, a + b is the Time
\* of (a.minutes + b.minutes) mod 1440 and a - b is the Time of
\* (a.minutes - b.minutes) mod 1440, both without a u16 overflow, so that
\* (a - b) + b = a.
C25_CyclicArithmetic ==
    /\ TimesInRange
    /\ arith_call # None =>
        LET a == arith_operands[1]
            b == arith_operands[2]
        IN  /\ arith_result # Panic
            /\ arith_call.op = "add" =>
                arith_result = Time((a.minutes + b.minutes) % 1440)
            /\ arith_call.op = "sub" =>
                /\ arith_result = Time((a.minutes - b.minutes) % 1440)
                /\ arith_back # None => arith_back = a

\* The part of C25 that the code satisfies: the range of every Time, the
\* sum, and the difference a - b when b.minutes <= a.minutes.
C25_CyclicWithoutBorrow ==
    /\ TimesInRange
    /\ arith_call # None =>
        LET a == arith_operands[1]
            b == arith_operands[2]
        IN  /\ arith_call.op = "add" =>
                arith_result = Time((a.minutes + b.minutes) % 1440)
            /\ arith_call.op = "sub" /\ b.minutes <= a.minutes =>
                /\ arith_result = Time((a.minutes - b.minutes) % 1440)
                /\ arith_back # None => arith_back = a

----------------------------------------------------------------------------
(* C26 *)

\* The string "R:G:B" of a gamma vector: the three channels in red, green,
\* blue order, each with three decimals, with one ':' between neighbours.
ThreeDecimalsColonSeparated(rgb) ==
    format_3(rgb[1]) \o ":" \o format_3(rgb[2]) \o ":" \o format_3(rgb[3])

\* Every --gamma of the command is followed by the string, and every
\* fourth argument is a --gamma.
GammaArgumentsAre(args, string) ==
    /\ Len(args) > 0
    /\ \A i \in 1..Len(args) :
        /\ args[i] = "--gamma" => i < Len(args) /\ args[i + 1] = string
        /\ i % 4 = 3 => args[i] = "--gamma"

\* C26: for every gamma vector XorgEnv::format_gamma returns the string of
\* the binaries' formatting, "R:G:B" with three decimals for each channel
\* and two ':' in all, and apply_gamma passes that one string after every
\* --gamma argument.
C26_SameGammaString ==
    fmt_gamma # None =>
        /\ fmt_env_string = Some(ThreeDecimalsColonSeparated(fmt_gamma.value))
        /\ fmt_bin_string # None => fmt_env_string = fmt_bin_string
        /\ fmt_env_command # None =>
            GammaArgumentsAre(fmt_env_command.value.args,
                              ThreeDecimalsColonSeparated(fmt_gamma.value))

\* The part of C26 that the code satisfies: apply_gamma passes the string
\* of format_gamma, whatever it is, after every --gamma, and the binaries'
\* string is "R:G:B".
C26_ApplyPassesFormatted ==
    /\ fmt_bin_string # None =>
        fmt_bin_string = Some(ThreeDecimalsColonSeparated(fmt_gamma.value))
    /\ fmt_env_command # None =>
        GammaArgumentsAre(fmt_env_command.value.args, fmt_env_string.value)

====
